---- MODULE Spec2Model ----
(***************************************************************************)
(* Model of app_streamlit.py, the Bolsa Atleta dashboard: the cached       *)
(* SQLite handle (get_valid_connection, ensure_valid_connection,           *)
(* fetch_query), the top-to-bottom script run that uses it, the sidebar    *)
(* filter state with build_where_clause, and the queries of the pages.     *)
(*                                                                         *)
(* The specifications share the variables:                                 *)
(*   Spec          the script runs, the handle cache and the store, with   *)
(*                 the environment able to invalidate a handle or remove   *)
(*                 the file                                                *)
(*   SpecWhere     the sidebar widgets and build_where_clause              *)
(*   SpecPages     the seven pages, their queries and what each view shows *)
(*   SpecTop       the pages on a store with more groups than a "Top 10"   *)
(*   SpecOverview  the overview page as the sidebar filters change         *)
(*   SpecSessions  two sessions interleaving their use of the handle       *)
(***************************************************************************)
EXTENDS Integers, Sequences, FiniteSets, TLC

\* ------------------------------------------------------------------ bounds

\* Handles the process may open in one explored behaviour.
MaxHandles == 3
\* Environment faults (handle invalidations, file removals) in one behaviour.
MaxFaults == 2
\* fetch_query / ensure_valid_connection calls of one script run.
MaxCalls == 2
\* Values a multiselect may hold at once.
MaxSel == 2
\* Payments the store may hold in the page renders.
MaxPagamentos == 3
\* Municipalities (and athletes, one per municipality) of the store.
NumMunicipios == 11

\* Rows of the modalidade table: one more than a "Top 10" keeps.
NumModalidades == 11

\* ------------------------------------------------------------- vocabulary

\* Python's None for a handle reference (_conn_cache, conn, valid_conn).
None == 0

Handles == 1..MaxHandles

\* Exception classes that reach the except clauses.  "DatabaseError" stands
\* for every class outside the three the code names (sqlite3.DatabaseError
\* itself, pandas.errors.DatabaseError, ...).
ErrClasses == {"ProgrammingError", "OperationalError", "InterfaceError", "DatabaseError"}

\* What the environment can do to a live handle: close it underneath the
\* program (every later statement raises ProgrammingError) or break it so
\* that statements raise a class the code does not name.
FaultClasses == {"ProgrammingError", "DatabaseError"}

\* Statement kinds.  Every statement the program issues is a SELECT (or the
\* PRAGMA of line 46); text typed into the search box is interpolated into
\* the SELECT of lines 1064-1082 and may carry a second statement.
Queries ==
  { [stmts |-> <<"SELECT">>, err |-> "none"],
    [stmts |-> <<"SELECT">>, err |-> "OperationalError"],
    [stmts |-> <<"SELECT">>, err |-> "DatabaseError"],
    [stmts |-> <<"SELECT", "DELETE">>, err |-> "none"] }

NoQuery == [stmts |-> <<>>, err |-> "none"]

\* The store: the payment rows, by identifier.
InitialStore == {1, 2}

VARIABLES
  conn_cache,      \* _conn_cache: the cached handle, or None
  conn,            \* the script's module-level conn (line 116 / 292)
  hstate,          \* per handle: "unopened", "open", "closed" (by the program)
  herr,            \* per handle: "none" or the class its statements raise
  closeAttempted,  \* handles on which the program called close()
  nOpened,         \* handles opened so far (sqlite3.connect calls)
  fileExists,      \* Path('bolsa_atleta.db').exists()
  store,           \* contents of the store
  pc,              \* position of the script run
  fpc,             \* position inside fetch_query
  fquery,          \* fetch_query's query argument
  valid_conn,      \* fetch_query's local valid_conn
  call,            \* record of the current / last fetch_query call
  lastGVC,         \* record of the last get_valid_connection call
  quiet,           \* no failure since the last get_valid_connection call
  runStmts,        \* statements executed on a handle in the current run
  runCalls,        \* fetch_query / ensure_valid_connection calls in the run
  errorShown,      \* st.error was rendered in the current run
  stoppedAt,       \* where st.stop() halted the run
  raised,          \* the exception that ended the run, or "none"
  faults,          \* environment faults so far
  \* ---- sidebar widgets (SpecWhere)
  filtro_categoria,
  filtro_modalidade,
  filtro_estado,
  use_date_filter,
  filtro_data_inicio,
  filtro_data_fim,
  use_value_filter,
  filtro_valor_min,
  filtro_valor_max,
  where_clause,    \* what build_where_clause() returned in the last render
  interacted,      \* the user has touched a sidebar widget
  limpou,          \* the last render followed a press of "Limpar Filtros"
  \* ---- the store's payments and the page (SpecPages, SpecTop)
  pagamento,       \* the rows of table pagamento
  page,            \* the radio of lines 120-124
  categoria_selecionada,   \* selectbox of line 748
  modalidade_selecionada,  \* selectbox of line 821
  estado_selecionado,      \* selectbox of line 899
  tipo_agrupamento,        \* selectbox of line 987
  busca,                   \* text_input of line 1061
  atleta_selecionado,      \* selectbox of line 1090, <<>> before a choice
  tabela_selecionada,      \* selectbox of line 1139
  filter_options,  \* what get_filter_options returned, kept by st.cache_data
  views,           \* the views of the last render, top to bottom
  \* ---- sessions served in parallel (SpecSessions)
  sessions         \* per session: its run's position, its _conn_cache, ...

connVars == <<conn_cache, conn, hstate, herr, closeAttempted, nOpened, fileExists,
              store, pc, fpc, fquery, valid_conn, call, lastGVC, quiet, runStmts,
              runCalls, errorShown, stoppedAt, raised, faults>>

filterVars == <<filtro_categoria, filtro_modalidade, filtro_estado, use_date_filter,
                filtro_data_inicio, filtro_data_fim, use_value_filter,
                filtro_valor_min, filtro_valor_max, where_clause, interacted,
                limpou>>

localVars == <<categoria_selecionada, modalidade_selecionada, estado_selecionado,
               tipo_agrupamento, busca, atleta_selecionado, tabela_selecionada>>

pageVars == <<pagamento, page, localVars, filter_options, views>>

vars == <<connVars, filterVars, pageVars, sessions>>

\* ------------------------------------------------- sqlite3 / pandas calls

CaughtProbe_narrow == {"OperationalError", "InterfaceError"}

\* The except tuple of line 31.
CaughtProbe == {"ProgrammingError", "OperationalError", "InterfaceError"}

CaughtQuery_narrow == {"OperationalError"}

CaughtQuery_all == ErrClasses

\* The except tuple of line 63.
CaughtQuery == {"ProgrammingError", "OperationalError", "InterfaceError"}

\* The except tuple of line 112.
CaughtEnsure == {"ProgrammingError", "OperationalError", "InterfaceError"}

\* What any statement on handle h raises because of the handle itself
\* ("none": the handle is live), hs being the handles' program-side states:
\* a handle the program closed raises ProgrammingError, a handle the
\* environment broke raises the class of its fault.
StmtError(hs, h) ==
  IF hs[h] = "closed" THEN "ProgrammingError" ELSE herr[h]

ProbeError_stale(hs, h) == "ProgrammingError"

\* The liveness probe of lines 29 and 110, execute("SELECT 1").
ProbeError(hs, h) == StmtError(hs, h)

\* What pd.read_sql_query(q, h) raises ("none": it returns a table).  A dead
\* handle fails first (con.cursor()); sqlite3's execute() refuses text that
\* holds more than one statement; otherwise the query behaves as it does on
\* a live handle.
ExecError(hs, h, q) ==
  IF StmtError(hs, h) # "none" THEN StmtError(hs, h)
  ELSE IF Len(q.stmts) # 1 THEN "DatabaseError"
  ELSE q.err

\* One statement applied to the store.
ApplyStatement(kind, s) == IF kind = "DELETE" THEN {} ELSE s

RECURSIVE ApplyAll(_, _)
ApplyAll(stmts, s) ==
  IF stmts = <<>> THEN s ELSE ApplyAll(Tail(stmts), ApplyStatement(Head(stmts), s))

ExecuteScript(hs, h, q, s) ==
  IF StmtError(hs, h) # "none" THEN s ELSE ApplyAll(q.stmts, s)

\* The store after pd.read_sql_query(q, h): cursor.execute runs a single
\* statement, and nothing at all when the text holds several.
ExecuteStatements(hs, h, q, s) ==
  IF ExecError(hs, h, q) # "none" THEN s ELSE ApplyStatement(q.stmts[1], s)

\* The table a query yields on a live handle: the rows of the store.
Table(q, s) == [rows |-> s]

NoTable == [rows |-> {}]

\* ------------------------------------------------- get_valid_connection

StoreMissing_never == FALSE

\* Lines 40-41: not db_path.exists().
StoreMissing == ~fileExists

\* The module globals and the handles, as get_valid_connection and the
\* except handler of fetch_query read and write them.
Globals ==
  [cache |-> conn_cache, hstate |-> hstate, closeAttempted |-> closeAttempted,
   nOpened |-> nOpened]

\* close() on handle c, swallowed when it raises (lines 33-36 and 66-70).
CloseHandle(g, c, closeRaises) ==
  [g EXCEPT !.hstate = IF closeRaises THEN @ ELSE [@ EXCEPT ![c] = "closed"],
            !.closeAttempted = @ \cup {c}]

Discard_keep(g, c, closeRaises) == CloseHandle(g, c, closeRaises)

\* Lines 33-37 and 66-71: the cached handle c is closed and _conn_cache is
\* set to None, whether or not close() raised.
Discard(g, c, closeRaises) ==
  [CloseHandle(g, c, closeRaises) EXCEPT !.cache = None]

\* get_valid_connection() called with globals g: what it returns or raises
\* and the globals it leaves.  closeRaises: the close() of line 34 raises.
\* outcome: "return", "raise" (a probe error outside the except tuple),
\* "stop" (st.error + st.stop), "bound" (the model's handle bound is used up).
get_valid_connection(g, closeRaises) ==
  LET c        == g.cache
      probed   == c # None
      e        == IF probed THEN ProbeError(g.hstate, c) ELSE "none"
      hit      == probed /\ e = "none"
      discard  == probed /\ e \in CaughtProbe
      uncaught == probed /\ ~hit /\ ~discard
      g1       == IF discard
                  THEN Discard(g, c, closeRaises)
                  ELSE g
      new      == g.nOpened + 1
      base     == [probed |-> c, probeErr |-> e, closeTried |-> discard,
                   closeRaised |-> discard /\ closeRaises, fileSeen |-> fileExists,
                   stmts |-> IF probed THEN 1 ELSE 0]
  IN IF hit THEN
       base @@ [outcome |-> "return", err |-> "none", ret |-> c, g |-> g,
                opened |-> FALSE]
     ELSE IF uncaught THEN
       base @@ [outcome |-> "raise", err |-> e, ret |-> None, g |-> g,
                opened |-> FALSE]
     ELSE IF StoreMissing THEN
       base @@ [outcome |-> "stop", err |-> "none", ret |-> None, g |-> g1,
                opened |-> FALSE]
     ELSE IF g.nOpened >= MaxHandles THEN
       base @@ [outcome |-> "bound", err |-> "none", ret |-> None, g |-> g1,
                opened |-> FALSE]
     ELSE
       [base EXCEPT !.stmts = @ + 1] @@
               [outcome |-> "return", err |-> "none", ret |-> new,
                g |-> [g1 EXCEPT !.cache = new, !.hstate[new] = "open",
                                 !.nOpened = new],
                opened |-> TRUE]

\* The record kept of a get_valid_connection call made with globals g.
GVCRecord(g, r, wasQuiet) ==
  [probed |-> r.probed, probeErr |-> r.probeErr, closeTried |-> r.closeTried,
   closeRaised |-> r.closeRaised, fileSeen |-> r.fileSeen,
   cacheBefore |-> g.cache, cacheAfter |-> r.g.cache,
   outcome |-> r.outcome, err |-> r.err, ret |-> r.ret, opened |-> r.opened,
   retOpen |-> (r.ret # None /\ r.g.hstate[r.ret] = "open" /\ herr[r.ret] = "none"),
   prevRet |-> IF lastGVC.outcome = "return" THEN lastGVC.ret ELSE None,
   wasQuiet |-> wasQuiet]

NoGVC ==
  [probed |-> None, probeErr |-> "none", closeTried |-> FALSE, closeRaised |-> FALSE,
   fileSeen |-> TRUE, cacheBefore |-> None, cacheAfter |-> None, outcome |-> "none",
   err |-> "none", ret |-> None, opened |-> FALSE, retOpen |-> FALSE,
   prevRet |-> None, wasQuiet |-> FALSE]

\* The state after a get_valid_connection call made with globals g that
\* gave r; stmts0: statements the caller executed before it; wasQuiet: no
\* failure happened since the previous call.
ApplyGVC(g, r, stmts0, wasQuiet) ==
  /\ r.outcome # "bound"
  /\ conn_cache' = r.g.cache
  /\ hstate' = r.g.hstate
  /\ closeAttempted' = r.g.closeAttempted
  /\ nOpened' = r.g.nOpened
  /\ lastGVC' = GVCRecord(g, r, wasQuiet)
  /\ quiet' = (r.outcome = "return")
  /\ runStmts' = runStmts + stmts0 + r.stmts
  /\ errorShown' = (errorShown \/ r.outcome = "stop")
  /\ raised' = IF r.outcome = "raise" THEN r.err ELSE raised

\* Where the run stands after a call that ended with `outcome`.
AfterOutcome(outcome, next) ==
  CASE outcome = "return" -> next
    [] outcome = "stop" -> "stopped"
    [] OTHER -> "raised"

\* ------------------------------------------- sidebar and query builder

\* Names are sequences of characters.  The options of the three multiselects
\* are the names stored in the categoria, modalidade and municipio tables
\* (lines 133-135); the store is maintained elsewhere and a name may hold
\* any character, an apostrophe included.
CategoriaOptions ==
  { <<"P">>, <<"N">>, <<"d", "'", "O">>, <<"'", "'">> }

ModalidadeOptions == { <<"J">>, <<"T", "'">> }

EstadoOptions == { <<"S", "P">>, <<"R", "J">> }

\* A date_input without a value.
NoDate == 0

\* Payment dates and amounts the widgets can hold (amounts in steps of 100).
\* A date is its day of the month; all dates of the model are of 2024-01.
Dates == {2, 10}

Valores == {0, 1, 2}

Range(seq) == { seq[i] : i \in 1..Len(seq) }

\* The widgets' values, as build_where_clause reads them from the globals.
FilterState ==
  [categoria |-> filtro_categoria, modalidade |-> filtro_modalidade,
   estado |-> filtro_estado, use_date |-> use_date_filter,
   inicio |-> filtro_data_inicio, fim |-> filtro_data_fim,
   use_value |-> use_value_filter, vmin |-> filtro_valor_min,
   vmax |-> filtro_valor_max]

\* "', '".join(values), lines 232, 236 and 240.
RECURSIVE JoinValues(_)
JoinValues(values) ==
  IF Len(values) = 1 THEN values[1]
  ELSE values[1] \o <<"'", ",", " ", "'">> \o JoinValues(Tail(values))

\* f"{column} IN ('{joined}')", lines 233, 237 and 241: the column name and
\* " IN (" are single tokens, the list is text.
InCondition(column, values) ==
  <<column, " IN (", "'">> \o JoinValues(values) \o <<"'", ")">>

\* str() of a datetime.date is its ISO form, every field zero-padded.
DateText(d) ==
  <<"2", "0", "2", "4", "-", "0", "1", "-", ToString(d \div 10), ToString(d % 10)>>

\* f"p.data_pagamento >= '{d}'" and its <= twin, lines 246 and 249.
DateCondition(op, d) == <<"p.data_pagamento", op, "'">> \o DateText(d) \o <<"'">>

\* f"p.valor_pago >= {v}" and its <= twin, lines 254 and 257.
ValueCondition(op, v) == <<"p.valor_pago", op, ToString(v)>>

\* The two date tests of lines 245 and 248 replaced by `is not None` under
\* the wrong toggle, and the two amount tests of lines 253 and 256 by >= 0.
Conditions_anydate(fs) ==
  (IF fs.categoria # <<>> THEN <<InCondition("c.categoria", fs.categoria)>> ELSE <<>>)
  \o (IF fs.modalidade # <<>> THEN <<InCondition("m.modalidade", fs.modalidade)>> ELSE <<>>)
  \o (IF fs.estado # <<>> THEN <<InCondition("mu.uf", fs.estado)>> ELSE <<>>)
  \o (IF fs.use_date THEN <<DateCondition(" >= ", fs.inicio)>> ELSE <<>>)
  \o (IF fs.use_date THEN <<DateCondition(" <= ", fs.fim)>> ELSE <<>>)
  \o (IF fs.use_value /\ fs.vmin > 0
      THEN <<ValueCondition(" >= ", fs.vmin)>> ELSE <<>>)
  \o (IF fs.use_value /\ fs.vmax > 0
      THEN <<ValueCondition(" <= ", fs.vmax)>> ELSE <<>>)

Conditions_anyvalue(fs) ==
  (IF fs.categoria # <<>> THEN <<InCondition("c.categoria", fs.categoria)>> ELSE <<>>)
  \o (IF fs.modalidade # <<>> THEN <<InCondition("m.modalidade", fs.modalidade)>> ELSE <<>>)
  \o (IF fs.estado # <<>> THEN <<InCondition("mu.uf", fs.estado)>> ELSE <<>>)
  \o (IF fs.use_date /\ fs.inicio # NoDate
      THEN <<DateCondition(" >= ", fs.inicio)>> ELSE <<>>)
  \o (IF fs.use_date /\ fs.fim # NoDate
      THEN <<DateCondition(" <= ", fs.fim)>> ELSE <<>>)
  \o (IF fs.use_value /\ fs.vmin >= 0
      THEN <<ValueCondition(" >= ", fs.vmin)>> ELSE <<>>)
  \o (IF fs.use_value /\ fs.vmax >= 0
      THEN <<ValueCondition(" <= ", fs.vmax)>> ELSE <<>>)

\* The list `conditions` of build_where_clause, lines 229-257.
Conditions(fs) ==
  (IF fs.categoria # <<>> THEN <<InCondition("c.categoria", fs.categoria)>> ELSE <<>>)
  \o (IF fs.modalidade # <<>> THEN <<InCondition("m.modalidade", fs.modalidade)>> ELSE <<>>)
  \o (IF fs.estado # <<>> THEN <<InCondition("mu.uf", fs.estado)>> ELSE <<>>)
  \o (IF fs.use_date /\ fs.inicio # NoDate
      THEN <<DateCondition(" >= ", fs.inicio)>> ELSE <<>>)
  \o (IF fs.use_date /\ fs.fim # NoDate
      THEN <<DateCondition(" <= ", fs.fim)>> ELSE <<>>)
  \o (IF fs.use_value /\ fs.vmin > 0
      THEN <<ValueCondition(" >= ", fs.vmin)>> ELSE <<>>)
  \o (IF fs.use_value /\ fs.vmax > 0
      THEN <<ValueCondition(" <= ", fs.vmax)>> ELSE <<>>)

\* " AND ".join(conditions), line 259.
RECURSIVE JoinAnd(_)
JoinAnd(conds) ==
  IF conds = <<>> THEN <<>>
  ELSE IF Len(conds) = 1 THEN conds[1]
  ELSE conds[1] \o <<" AND ">> \o JoinAnd(Tail(conds))

\* A str-or-None value: None, or the text.
NoWhere == [isNone |-> TRUE, text |-> <<>>]

build_where_clause_join(fs) == [isNone |-> FALSE, text |-> JoinAnd(Conditions(fs))]

\* build_where_clause(), lines 227-259.
build_where_clause(fs) ==
  IF Conditions(fs) # <<>>
  THEN [isNone |-> FALSE, text |-> JoinAnd(Conditions(fs))]
  ELSE NoWhere

\* Python truth of a str-or-None value, as tested by `if where_clause:`.
Truthy(w) == ~w.isNone /\ w.text # <<>>

\* Lines 286-289 (and every `if where_clause:` of the overview page): the
\* query gets a WHERE part only when where_clause is truthy.
OverviewWherePart(w) == IF Truthy(w) THEN <<" WHERE ">> \o w.text ELSE <<>>

\* ---- how SQLite reads the text of an IN list

Spaces == {" "}

RECURSIVE SkipSpaces(_, _)
SkipSpaces(t, i) ==
  IF i <= Len(t) /\ t[i] \in Spaces THEN SkipSpaces(t, i + 1) ELSE i

\* A string literal whose opening quote precedes position i: it ends at the
\* first quote that is not doubled, and a doubled quote stands for one.
RECURSIVE ReadLiteral(_, _, _)
ReadLiteral(t, i, acc) ==
  IF i > Len(t) THEN [ok |-> FALSE, value |-> acc, next |-> i]
  ELSE IF t[i] = "'" THEN
    IF i + 1 <= Len(t) /\ t[i + 1] = "'"
    THEN ReadLiteral(t, i + 2, Append(acc, "'"))
    ELSE [ok |-> TRUE, value |-> acc, next |-> i + 1]
  ELSE ReadLiteral(t, i + 1, Append(acc, t[i]))

\* The literals of a parenthesised list whose "(" precedes position i, or
\* ok = FALSE when the text is not such a list followed by nothing.
RECURSIVE ParseList(_, _, _)
ParseList(t, i, vals) ==
  LET a == SkipSpaces(t, i) IN
    IF a > Len(t) \/ t[a] # "'" THEN [ok |-> FALSE, values |-> {}]
    ELSE
      LET lit == ReadLiteral(t, a + 1, <<>>)
          b   == SkipSpaces(t, lit.next)
      IN IF ~lit.ok \/ b > Len(t) THEN [ok |-> FALSE, values |-> {}]
         ELSE IF t[b] = "," THEN ParseList(t, b + 1, vals \cup {lit.value})
         ELSE IF t[b] = ")" /\ b = Len(t)
              THEN [ok |-> TRUE, values |-> vals \cup {lit.value}]
         ELSE [ok |-> FALSE, values |-> {}]

\* A row whose column holds `value` satisfies the condition text `cond`
\* (column IN (...)): the text parses as a list of literals and the value is
\* one of them.  Text that does not parse fails the query: no row matches.
RowMatchesIn(cond, value) ==
  LET p == ParseList(cond, 3, {}) IN p.ok /\ value \in p.values

\* The literals of a parenthesised list whose "(" precedes position i, and
\* the position after its ")".
RECURSIVE ReadList(_, _, _)
RECURSIVE ReadListItem(_, _, _)
RECURSIVE ReadListNext(_, _, _, _)
ReadListNext(t, b, lit, vals) ==
  IF ~lit.ok \/ b > Len(t) THEN [ok |-> FALSE, values |-> {}, next |-> b]
  ELSE IF t[b] = "," THEN ReadList(t, b + 1, vals \cup {lit.value})
  ELSE IF t[b] = ")"
       THEN [ok |-> TRUE, values |-> vals \cup {lit.value}, next |-> b + 1]
  ELSE [ok |-> FALSE, values |-> {}, next |-> b]

ReadListItem(t, lit, vals) == ReadListNext(t, SkipSpaces(t, lit.next), lit, vals)

ReadListFrom(t, a, vals) ==
  IF a > Len(t) \/ t[a] # "'" THEN [ok |-> FALSE, values |-> {}, next |-> a]
  ELSE ReadListItem(t, ReadLiteral(t, a + 1, <<>>), vals)

ReadList(t, i, vals) == ReadListFrom(t, SkipSpaces(t, i), vals)

\* The columns of the joined row (join_clause, lines 276-282) that the
\* conditions of build_where_clause name.
ColumnOf(row, column) ==
  CASE column = "c.categoria" -> row.categoria
    [] column = "m.modalidade" -> row.modalidade
    [] column = "mu.uf" -> row.uf

ListColumns == {"c.categoria", "m.modalidade", "mu.uf"}

Comparisons == {" >= ", " <= "}

\* SQLite compares TEXT values byte by byte; data_pagamento holds ISO text.
Digits == { ToString(n) : n \in 0..9 }

CharCode(c) == IF c \in Digits THEN CHOOSE n \in 0..9 : ToString(n) = c ELSE 10

RECURSIVE TextLeq(_, _)
TextLeq(a, b) ==
  IF a = <<>> THEN TRUE
  ELSE IF b = <<>> THEN FALSE
  ELSE IF CharCode(a[1]) # CharCode(b[1]) THEN CharCode(a[1]) < CharCode(b[1])
  ELSE TextLeq(Tail(a), Tail(b))

Compare(op, a, b) == IF op = " >= " THEN b <= a ELSE a <= b

CompareText(op, a, b) == IF op = " >= " THEN TextLeq(b, a) ELSE TextLeq(a, b)

\* The numeric literal str() wrote for an amount, read back.
IsNumber(tok) == \E v \in Valores : ToString(v) = tok

NumberOf(tok) == CHOOSE v \in Valores : ToString(v) = tok

\* LIKE folds the case of ASCII letters.
Lowercase == <<"a", "b", "n", "o">>

Uppercase == <<"A", "B", "N", "O">>

Fold(c) ==
  IF \E i \in DOMAIN Lowercase : Lowercase[i] = c
  THEN Uppercase[CHOOSE i \in DOMAIN Lowercase : Lowercase[i] = c]
  ELSE c

\* text LIKE pattern: % stands for any run of characters, _ for any one.
RECURSIVE LikeMatch(_, _)
LikeMatch(pattern, text) ==
  IF pattern = <<>> THEN text = <<>>
  ELSE IF pattern[1] = "%"
    THEN LikeMatch(Tail(pattern), text)
         \/ (text # <<>> /\ LikeMatch(pattern, Tail(text)))
  ELSE IF text = <<>> THEN FALSE
  ELSE /\ pattern[1] = "_" \/ Fold(pattern[1]) = Fold(text[1])
       /\ LikeMatch(Tail(pattern), Tail(text))

\* The condition that starts at position i of a WHERE text, evaluated on a
\* joined row: whether it parses, whether the row passes it, where it ends.
Unread(i) == [ok |-> FALSE, holds |-> FALSE, next |-> i]

InList(value, lst) ==
  [ok |-> lst.ok, holds |-> value \in lst.values, next |-> lst.next]

Quoted(lit, holds) == [ok |-> lit.ok, holds |-> holds, next |-> lit.next]

\* column <operator> '<literal>', lit being the literal as read.
EvalQuoted(t, i, row, lit) ==
  IF t[i] \in ListColumns /\ t[i + 1] = " = " THEN
    Quoted(lit, ColumnOf(row, t[i]) = lit.value)
  ELSE IF t[i] = "p.cpf" /\ t[i + 1] = " = " THEN
    Quoted(lit, <<ToString(row.cpf)>> = lit.value)
  ELSE IF t[i] = "a.nome" /\ t[i + 1] = " LIKE " THEN
    Quoted(lit, LikeMatch(lit.value, row.nome))
  ELSE IF t[i] = "p.data_pagamento" /\ t[i + 1] \in Comparisons THEN
    Quoted(lit, CompareText(t[i + 1], DateText(row.data), lit.value))
  ELSE Unread(i)

EvalCondition(t, i, row) ==
  IF i + 1 > Len(t) THEN Unread(i)
  ELSE IF t[i] = "data_pagamento" /\ t[i + 1] = " IS NOT NULL" THEN
    [ok |-> TRUE, holds |-> row.data # NoDate, next |-> i + 2]
  ELSE IF i + 2 > Len(t) THEN Unread(i)
  ELSE IF t[i] \in ListColumns /\ t[i + 1] = " IN (" THEN
    InList(ColumnOf(row, t[i]), ReadList(t, i + 2, {}))
  ELSE IF t[i] = "p.valor_pago" /\ t[i + 1] \in Comparisons /\ IsNumber(t[i + 2]) THEN
    [ok |-> TRUE, holds |-> Compare(t[i + 1], row.valor, NumberOf(t[i + 2])),
     next |-> i + 3]
  ELSE IF t[i + 2] # "'" THEN Unread(i)
  ELSE EvalQuoted(t, i, row, ReadLiteral(t, i + 3, <<>>))

\* cond AND cond AND ... to the end of the text, c being the first
\* condition as read.
Conjoin(c, rest) == [ok |-> rest.ok, holds |-> c.holds /\ rest.holds]

RECURSIVE EvalRest(_, _, _)
EvalRest(t, row, c) ==
  IF ~c.ok THEN [ok |-> FALSE, holds |-> FALSE]
  ELSE IF c.next > Len(t) THEN [ok |-> TRUE, holds |-> c.holds]
  ELSE IF t[c.next] # " AND " THEN [ok |-> FALSE, holds |-> FALSE]
  ELSE Conjoin(c, EvalRest(t, row, EvalCondition(t, c.next + 1, row)))

EvalConjunction(t, i, row) == EvalRest(t, row, EvalCondition(t, i, row))

\* A query with the WHERE part of lines 286-289 returns the joined row:
\* without a WHERE part every row, otherwise the rows passing the text, and
\* none when the text does not parse (the statement fails).
Holds(r) == r.ok /\ r.holds

RowPasses(w, row) ==
  IF ~Truthy(w) THEN TRUE
  ELSE Holds(EvalConjunction(w.text, 1, row))

WhereParses(w) ==
  ~Truthy(w) \/ EvalConjunction(w.text, 1,
                   [categoria |-> <<>>, modalidade |-> <<>>, uf |-> <<>>,
                    data |-> 0, valor |-> 0, cpf |-> 0, nome |-> <<>>]).ok

\* Amounts a payment can have.
Amounts == {1, 2, 3}

\* The joined rows of join_clause: a payment with its category, modality
\* and its athlete's state.
JoinedRows ==
  [categoria : CategoriaOptions, modalidade : ModalidadeOptions,
   uf : EstadoOptions, data : Dates, valor : Amounts]

\* ------------------------------------------------- the store's tables

\* The tables the queries read.  categoria, modalidade, municipio and atleta
\* are sequences indexed by their key; pagamento is a variable.
CategoriaTable == << <<"P">>, <<"N">>, <<"d", "'", "O">>, <<"'", "'">> >>

ModalidadeTable ==
  [i \in 1..NumModalidades |->
     CASE i = 1 -> <<"J">>
       [] i = 2 -> <<"T", "'">>
       [] OTHER -> <<"M", ToString(i)>>]

MunicipioTable ==
  [i \in 1..NumMunicipios |->
     [municipio |-> i, uf |-> IF i % 2 = 1 THEN <<"S", "P">> ELSE <<"R", "J">>]]

\* One athlete per municipality; names repeat.
AtletaTable ==
  [i \in 1..NumMunicipios |->
     [nome |-> IF i % 3 = 0 THEN <<"B", "o">> ELSE <<"A", "n">>,
      id_municipio |-> i]]

\* SQL NULL, as the value of SUM over no row.
Null == 0 - 1

\* The tables join_clause (lines 276-282) joins to pagamento.
JoinClause == {"categoria", "modalidade", "atleta", "municipio"}

HasCategoria(p) == p.id_categoria \in DOMAIN CategoriaTable

HasModalidade(p) == p.id_modalidade \in DOMAIN ModalidadeTable

HasAtleta(p) == p.cpf \in DOMAIN AtletaTable

HasMunicipio(p) ==
  HasAtleta(p) /\ AtletaTable[p.cpf].id_municipio \in DOMAIN MunicipioTable

\* pagamento p JOIN ... ON ...: the payments whose key resolves in every
\* joined table, each with the columns of the rows it joins (and no value
\* in the columns of a table that is not joined or has no such row).
JoinPagamento(pagamentos, tables) ==
  { [id_pagamento |-> p.id_pagamento,
     categoria |-> IF HasCategoria(p) THEN CategoriaTable[p.id_categoria] ELSE <<>>,
     modalidade |-> IF HasModalidade(p) THEN ModalidadeTable[p.id_modalidade] ELSE <<>>,
     cpf |-> p.cpf,
     nome |-> IF HasAtleta(p) THEN AtletaTable[p.cpf].nome ELSE <<>>,
     municipio |-> IF HasAtleta(p) THEN AtletaTable[p.cpf].id_municipio ELSE 0,
     uf |-> IF HasMunicipio(p)
            THEN MunicipioTable[AtletaTable[p.cpf].id_municipio].uf ELSE <<>>,
     data |-> p.data,
     valor |-> p.valor] :
    p \in { x \in pagamentos :
              /\ "categoria" \in tables => HasCategoria(x)
              /\ "modalidade" \in tables => HasModalidade(x)
              /\ "atleta" \in tables => HasAtleta(x)
              /\ "municipio" \in tables => HasMunicipio(x) } }

\* SUM(valor_pago) over a set of joined rows.
RECURSIVE SumValor(_)
SumValor(rows) ==
  IF rows = {} THEN 0
  ELSE LET r == CHOOSE x \in rows : TRUE IN r.valor + SumValor(rows \ {r})

MinValor(rows) == CHOOSE v \in { r.valor : r \in rows } : \A r \in rows : v <= r.valor

\* strftime of lines 993-999 on the ISO text of a date.
Periodo(tipo, d) ==
  CASE tipo = "Ano" -> SubSeq(DateText(d), 1, 4)
    [] tipo = "Mês" -> SubSeq(DateText(d), 6, 7)
    [] OTHER -> SubSeq(DateText(d), 1, 7)

\* The CASE of lines 364-370, with the model's amounts in thousands.
FaixaValor(v) ==
  IF v < 1 THEN 1 ELSE IF v < 2 THEN 2 ELSE IF v < 3 THEN 3 ELSE IF v < 5 THEN 4 ELSE 5

\* The GROUP BY key of a joined row.
GroupKey(group, r) ==
  CASE group = "c.categoria" -> r.categoria
    [] group = "m.modalidade" -> r.modalidade
    [] group = "mu.uf" -> r.uf
    [] group = "mu.municipio, mu.uf" -> <<r.municipio, r.uf>>
    [] group = "c.categoria, m.modalidade, mu.uf" -> <<r.categoria, r.modalidade, r.uf>>
    [] group = "faixa_valor" -> FaixaValor(r.valor)
    [] group = "a.cpf" -> r.cpf
    [] group \in {"Ano", "Mês", "Ano-Mês"} -> Periodo(group, r.data)

\* One row of an aggregate result: the key and the aggregates of its rows.
Aggregate(key, rows) ==
  [key |-> key,
   num_pagamentos |-> Cardinality(rows),
   num_atletas |-> Cardinality({ r.cpf : r \in rows }),
   valor_total |-> IF rows = {} THEN Null ELSE SumValor(rows),
   valor_min |-> IF rows = {} THEN Null ELSE MinValor(rows)]

\* GROUP BY: one aggregate row for each key that some row has.
GroupBy(group, rows) ==
  { Aggregate(k, { r \in rows : GroupKey(group, r) = k }) :
      k \in { GroupKey(group, r) : r \in rows } }

\* ORDER BY: g may come before h.  AVG is compared by cross-multiplying;
\* NULL sorts below every value.
MayPrecede(order, g, h) ==
  CASE order = "valor_total DESC" -> g.valor_total >= h.valor_total
    [] order = "valor_medio DESC" ->
         g.valor_total * h.num_pagamentos >= h.valor_total * g.num_pagamentos
    [] order = "num_atletas DESC" -> g.num_atletas >= h.num_atletas
    [] order = "MIN(valor_pago)" -> g.valor_min <= h.valor_min
    [] order = "periodo" -> TextLeq(g.key, h.key)
    [] order = "p.data_pagamento DESC" -> TextLeq(DateText(h.data), DateText(g.data))
    [] OTHER -> TRUE

\* The rows in an order that ORDER BY allows; SQLite leaves the order among
\* equal rows (and without ORDER BY, among all rows) open.
RECURSIVE OrderBy(_, _)
OrderBy(order, groups) ==
  IF groups = {} THEN <<>>
  ELSE LET g == CHOOSE x \in groups : \A y \in groups : MayPrecede(order, x, y)
       IN <<g>> \o OrderBy(order, groups \ {g})

Limit_tail(n, rows) ==
  IF n = 0 \/ Len(rows) <= n THEN rows ELSE SubSeq(rows, Len(rows) - n + 1, Len(rows))

\* LIMIT n; 0 stands for a query without LIMIT.
Limit(n, rows) == IF n = 0 \/ Len(rows) <= n THEN rows ELSE SubSeq(rows, 1, n)

\* ---------------------------------------------------- the pages' queries

\* A query: what it selects from, its WHERE text (or none), GROUP BY,
\* ORDER BY and LIMIT (0: none).  The kinds: "aggregate" (pagamento and its
\* joins, aggregated; group "" is an aggregate without GROUP BY), "busca"
\* (atleta LEFT JOIN pagamento, aggregated per athlete), "rows" (joined
\* payments, not aggregated), "list" (one column of a table) and "table"
\* (SELECT * of a table).
Query(name, kind, tables, where, group, order, limit) ==
  [name |-> name, kind |-> kind, tables |-> tables, where |-> where,
   group |-> group, order |-> order, limit |-> limit]

Where(text) == [isNone |-> FALSE, text |-> text]

\* A view: the query it shows and what the code does with a result of no
\* row: "info" / "warning" (the else branch renders st.info / st.warning),
\* "nothing" (an `if not df.empty:` without else), "unchecked" (the result
\* is rendered without a test).
View(name, query, empty) == [view |-> name, query |-> query, empty |-> empty]

\* The `if where_clause:` pairs of the overview page: with a predicate the
\* query selects from join_clause WHERE the predicate, without one from the
\* tables its unfiltered text names.
OverviewQuery_limit1(name, tables, group, order, limit, w) ==
  IF Truthy(w)
  THEN Query(name, "aggregate", JoinClause, w, group, order, limit)
  ELSE Query(name, "aggregate", tables, NoWhere, group, order, 1)

OverviewQuery(name, tables, group, order, limit, w) ==
  IF Truthy(w)
  THEN Query(name, "aggregate", JoinClause, w, group, order, limit)
  ELSE Query(name, "aggregate", tables, NoWhere, group, order, limit)

\* Lines 294-738.
OverviewViews(w) ==
  << View("stats", OverviewQuery("query_stats", {}, "", "", 0, w), "unchecked"),
     View("valores",
          OverviewQuery("query_valores", {}, "faixa_valor", "MIN(valor_pago)", 0, w),
          "info"),
     View("valor_medio",
          OverviewQuery("query_valor_medio", {"categoria"}, "c.categoria",
                        "valor_medio DESC", 0, w), "info"),
     View("top_modalidades",
          OverviewQuery("query_top_modalidades", {"modalidade"}, "m.modalidade",
                        "valor_total DESC", 10, w), "info"),
     View("cat",
          OverviewQuery("query_cat", {"categoria"}, "c.categoria",
                        "valor_total DESC", 0, w), "info"),
     View("estados",
          OverviewQuery("query_estados", {"atleta", "municipio"}, "mu.uf",
                        "valor_total DESC", 10, w), "info"),
     View("municipios",
          OverviewQuery("query_municipios", {"atleta", "municipio"},
                        "mu.municipio, mu.uf", "valor_total DESC", 10, w), "info"),
     View("modalidades_atletas",
          OverviewQuery("query_modalidades_atletas", {"modalidade"}, "m.modalidade",
                        "num_atletas DESC", 10, w), "info"),
     View("dist_geo",
          OverviewQuery("query_dist_geo", {"atleta", "municipio"}, "mu.uf",
                        "valor_total DESC", 0, w), "info"),
     View("resumo",
          OverviewQuery("query_resumo", JoinClause,
                        "c.categoria, m.modalidade, mu.uf", "valor_total DESC", 50, w),
          "nothing") >>

\* The first option of the selectboxes of lines 748, 821 and 899.
Todas == <<"T", "o", "d", "a", "s">>

Todos == <<"T", "o", "d", "o", "s">>

\* f"... = '{value}'", lines 774, 847 and 929.
EqualsCondition(column, value) == Where(<<column, " = ", "'">> \o value \o <<"'">>)

\* Lines 745-811.
CategoriaViews(categoria_sel) ==
  << View("categorias", Query("categorias", "list", "categoria", NoWhere, "", "", 0),
          "unchecked"),
     View("categoria",
          IF categoria_sel = Todas
          THEN Query("query_categoria", "aggregate", {"categoria"}, NoWhere,
                     "c.categoria", "valor_total DESC", 0)
          ELSE Query("query_categoria", "aggregate", {"categoria"},
                     EqualsCondition("c.categoria", categoria_sel),
                     "c.categoria", "", 0),
          "nothing") >>

\* Lines 818-889.
ModalidadeViews(modalidade_sel) ==
  << View("modalidades", Query("modalidades", "list", "modalidade", NoWhere, "", "", 0),
          "unchecked"),
     View("modalidade",
          IF modalidade_sel = Todas
          THEN Query("query_modalidade", "aggregate", {"modalidade"}, NoWhere,
                     "m.modalidade", "valor_total DESC", 0)
          ELSE Query("query_modalidade", "aggregate", {"modalidade"},
                     EqualsCondition("m.modalidade", modalidade_sel),
                     "m.modalidade", "", 0),
          "nothing") >>

\* Lines 896-978.
RegiaoViews(estado_sel) ==
  << View("estados", Query("estados", "list", "municipio", NoWhere, "", "", 0),
          "unchecked"),
     View("regiao",
          IF estado_sel = Todos
          THEN Query("query_regiao", "aggregate", {"atleta", "municipio"}, NoWhere,
                     "mu.uf", "valor_total DESC", 0)
          ELSE Query("query_regiao", "aggregate", {"atleta", "municipio"},
                     EqualsCondition("mu.uf", estado_sel),
                     "mu.municipio, mu.uf", "valor_total DESC", 0),
          "nothing") >>

\* Lines 987-1054.
TemporalViews(tipo) ==
  << View("temporal",
          Query("query_temporal", "aggregate", {},
                Where(<<"data_pagamento", " IS NOT NULL">>), tipo, "periodo", 0),
          "nothing") >>

\* Lines 1064-1082.
QueryBusca(texto) ==
  Query("query_busca", "busca", {"municipio"},
        Where(<<"a.nome", " LIKE ", "'", "%">> \o texto \o <<"%", "'">>),
        "a.cpf", "valor_total DESC", 100)

\* Lines 1097-1113; the joins to situacao and edital keep every payment.
QueryDetalhes(cpf_atleta) ==
  Query("query_detalhes", "rows", {"categoria", "modalidade"},
        Where(<<"p.cpf", " = ", "'", ToString(cpf_atleta), "'">>),
        "", "p.data_pagamento DESC", 0)

\* Lines 1138-1149, with the slider at its default.
tabelas ==
  <<"pagamento", "atleta", "categoria", "modalidade", "municipio", "situacao", "edital">>

DadosViews(tabela) ==
  << View("dados", Query("query_dados", "table", tabela, NoWhere, "", "", 100),
          "unchecked") >>

\* ---------------------------------------------------- running a query

\* A DataFrame: the rows in result order; ok = FALSE when the statement
\* failed (pandas raises DatabaseError and the script run ends).
Frame(rows) == [ok |-> TRUE, df |-> rows]

Failed == [ok |-> FALSE, df |-> <<>>]

\* The rows of a table as SELECT * returns them; situacao and edital hold
\* one row each.
TableRows(tabela, pagamentos) ==
  CASE tabela = "pagamento" -> pagamentos
    [] tabela = "atleta" -> { <<"atleta", i>> : i \in DOMAIN AtletaTable }
    [] tabela = "categoria" -> { <<"categoria", i>> : i \in DOMAIN CategoriaTable }
    [] tabela = "modalidade" -> { <<"modalidade", i>> : i \in DOMAIN ModalidadeTable }
    [] tabela = "municipio" -> { <<"municipio", i>> : i \in DOMAIN MunicipioTable }
    [] OTHER -> { <<tabela, 1>> }

\* The athletes of query_busca: atleta JOIN municipio, as rows that carry
\* the columns a WHERE text may name.
AtletaRows ==
  { [id_pagamento |-> 0, categoria |-> <<>>, modalidade |-> <<>>, cpf |-> i,
     nome |-> AtletaTable[i].nome, municipio |-> AtletaTable[i].id_municipio,
     uf |-> MunicipioTable[AtletaTable[i].id_municipio].uf, data |-> NoDate,
     valor |-> 0] :
    i \in { j \in DOMAIN AtletaTable :
              AtletaTable[j].id_municipio \in DOMAIN MunicipioTable } }

\* The rows a query selects from, and those its WHERE part keeps.
Source(q, pagamentos) ==
  CASE q.kind \in {"aggregate", "rows"} -> JoinPagamento(pagamentos, q.tables)
    [] q.kind = "busca" -> AtletaRows
    [] OTHER -> TableRows(q.tables, pagamentos)

Selected(q, pagamentos) ==
  { r \in Source(q, pagamentos) : RowPasses(q.where, r) }

\* The result rows: aggregated as GROUP BY says, per athlete for the LEFT
\* JOIN of query_busca, or the rows themselves.
Result(q, rows, pagamentos) ==
  CASE q.kind = "aggregate" /\ q.group = "" -> { Aggregate(<<>>, rows) }
    [] q.kind = "aggregate" /\ q.group # "" -> GroupBy(q.group, rows)
    [] q.kind = "busca" ->
         { Aggregate(<<a.cpf, a.nome>>,
                     { r \in JoinPagamento(pagamentos, {}) : r.cpf = a.cpf }) :
           a \in rows }
    [] OTHER -> rows

\* pd.read_sql_query(query, conn) on a live handle.
Exec(q, pagamentos) ==
  IF ~WhereParses(q.where) THEN Failed
  ELSE Frame(Limit(q.limit,
                   OrderBy(q.order, Result(q, Selected(q, pagamentos), pagamentos))))

\* What a view shows for a result.
Shown(v, r) ==
  IF ~r.ok THEN "error"
  ELSE IF r.df # <<>> \/ v.empty = "unchecked" THEN "content"
  ELSE v.empty

Rendered(v, r) ==
  [view |-> v.view, query |-> v.query, ok |-> r.ok, df |-> r.df,
   shown |-> Shown(v, r)]

\* The views of a page rendered top to bottom; a failed query ends the run.
RECURSIVE RenderViews(_, _)
RECURSIVE RenderRest(_, _, _)
RenderRest(vs, r, pagamentos) ==
  IF ~r.ok THEN << Rendered(Head(vs), r) >>
  ELSE << Rendered(Head(vs), r) >> \o RenderViews(Tail(vs), pagamentos)

RenderViews(vs, pagamentos) ==
  IF vs = <<>> THEN <<>>
  ELSE RenderRest(vs, Exec(Head(vs).query, pagamentos), pagamentos)

\* Lines 1089-1094: the name of the selectbox (its first option unless the
\* user chose another that is listed), and the cpf of the first row of
\* df_busca that has the name.
NomeSelecionado(df, atleta_sel) ==
  IF \E i \in DOMAIN df : df[i].key[2] = atleta_sel THEN atleta_sel
  ELSE df[1].key[2]

CpfDe(df, nome) ==
  df[CHOOSE i \in DOMAIN df :
       /\ df[i].key[2] = nome
       /\ \A j \in 1..(i - 1) : df[j].key[2] # nome].key[1]

\* Lines 1086-1131: the search result and, when it has rows, the details
\* of the selected athlete.
BuscaRendered(vb, rb, atleta_sel, pagamentos) ==
  IF ~rb.ok \/ rb.df = <<>> THEN << Rendered(vb, rb) >>
  ELSE << Rendered(vb, rb) >>
       \o RenderViews(<< View("detalhes",
                              QueryDetalhes(CpfDe(rb.df, NomeSelecionado(rb.df, atleta_sel))),
                              "unchecked") >>,
                      pagamentos)

\* Lines 1061-1131: without a text only a prompt.
BuscaViews(texto, atleta_sel, pagamentos) ==
  IF texto = <<>> THEN <<>>
  ELSE BuscaRendered(View("busca", QueryBusca(texto), "warning"),
                     Exec(QueryBusca(texto), pagamentos), atleta_sel, pagamentos)

\* The views of a page other than the search page, for the values of the
\* page's own widgets.
PageViews(pg, w, loc) ==
  CASE pg = "Visão Geral" -> OverviewViews(w)
    [] pg = "Análise por Categoria" -> CategoriaViews(loc.categoria_selecionada)
    [] pg = "Análise por Modalidade" -> ModalidadeViews(loc.modalidade_selecionada)
    [] pg = "Análise por Região" -> RegiaoViews(loc.estado_selecionado)
    [] pg = "Análise Temporal" -> TemporalViews(loc.tipo_agrupamento)
    [] pg = "Dados Brutos" -> DadosViews(loc.tabela_selecionada)

\* The page's part of the script (lines 269-1154).
RenderPage(pg, w, loc, pagamentos) ==
  IF pg = "Busca de Atletas"
  THEN BuscaViews(loc.busca, loc.atleta_selecionado, pagamentos)
  ELSE RenderViews(PageViews(pg, w, loc), pagamentos)

\* ---- the widgets

\* Widget defaults of lines 155-224: nothing selected, both toggles off.
FilterDefaults ==
  /\ filtro_categoria = <<>>
  /\ filtro_modalidade = <<>>
  /\ filtro_estado = <<>>
  /\ use_date_filter = FALSE
  /\ filtro_data_inicio = NoDate
  /\ filtro_data_fim = NoDate
  /\ use_value_filter = FALSE
  /\ filtro_valor_min = 0
  /\ filtro_valor_max = 0
  /\ where_clause = build_where_clause(FilterState)
  /\ interacted = FALSE
  /\ limpou = FALSE

\* The values of the page's own widgets, as the page's code reads them.
Locals ==
  [categoria_selecionada |-> categoria_selecionada,
   modalidade_selecionada |-> modalidade_selecionada,
   estado_selecionado |-> estado_selecionado,
   tipo_agrupamento |-> tipo_agrupamento,
   busca |-> busca,
   atleta_selecionado |-> atleta_selecionado,
   tabela_selecionada |-> tabela_selecionada]

\* The defaults of the pages' widgets: the first option, an empty text.
LocalDefaults ==
  [categoria_selecionada |-> Todas,
   modalidade_selecionada |-> Todas,
   estado_selecionado |-> Todos,
   tipo_agrupamento |-> "Ano",
   busca |-> <<>>,
   atleta_selecionado |-> <<>>,
   tabela_selecionada |-> "pagamento"]

InitLocals ==
  /\ categoria_selecionada = LocalDefaults.categoria_selecionada
  /\ modalidade_selecionada = LocalDefaults.modalidade_selecionada
  /\ estado_selecionado = LocalDefaults.estado_selecionado
  /\ tipo_agrupamento = LocalDefaults.tipo_agrupamento
  /\ busca = LocalDefaults.busca
  /\ atleta_selecionado = LocalDefaults.atleta_selecionado
  /\ tabela_selecionada = LocalDefaults.tabela_selecionada

SetLocals(loc) ==
  /\ categoria_selecionada' = loc.categoria_selecionada
  /\ modalidade_selecionada' = loc.modalidade_selecionada
  /\ estado_selecionado' = loc.estado_selecionado
  /\ tipo_agrupamento' = loc.tipo_agrupamento
  /\ busca' = loc.busca
  /\ atleta_selecionado' = loc.atleta_selecionado
  /\ tabela_selecionada' = loc.tabela_selecionada

\* No entry of st.cache_data for get_filter_options.
NoOptions ==
  [cached |-> FALSE, categorias |-> {}, modalidades |-> {}, estados |-> {},
   min_date |-> NoDate, max_date |-> NoDate]

\* The body of get_filter_options, lines 133-147: five queries.
LoadFilterOptions(pagamentos) ==
  LET datas == { p.data : p \in { x \in pagamentos : x.data # NoDate } }
  IN [cached |-> TRUE,
      categorias |-> Range(CategoriaTable),
      modalidades |-> Range(ModalidadeTable),
      estados |-> { MunicipioTable[i].uf : i \in DOMAIN MunicipioTable },
      min_date |-> IF datas = {} THEN NoDate
                   ELSE CHOOSE d \in datas : \A e \in datas : d <= e,
      max_date |-> IF datas = {} THEN NoDate
                   ELSE CHOOSE d \in datas : \A e \in datas : d >= e]

get_filter_options_uncached(cache, pagamentos) == LoadFilterOptions(pagamentos)

\* get_filter_options under @st.cache_data (lines 130-149): its argument
\* _conn is not part of the cache key, so the body runs once and every
\* later call returns the entry.
get_filter_options(cache, pagamentos) ==
  IF cache.cached THEN cache ELSE LoadFilterOptions(pagamentos)

\* The page variables before any page render is modelled.
PageIdle ==
  /\ pagamento = {}
  /\ page = "Visão Geral"
  /\ InitLocals
  /\ filter_options = NoOptions
  /\ views = <<>>

\* ---------------------------------------------------------- fetch_query

NoCall ==
  [q |-> NoQuery, n |-> 0, e1 |-> "none", e2 |-> "none", outcome |-> "none",
   h1 |-> None, h2 |-> None, cacheAtCall |-> None, cacheAtFail |-> None,
   errAtCall |-> "none", fileAtCall |-> TRUE, nOpenedAtFail |-> 0,
   midFaults |-> 0, table |-> NoTable]

\* The sessions the host serves, each running the script in its own thread.
Sessions == {1, 2}

\* No session has run the script yet.  shared: the sessions' runs bind the
\* global _conn_cache in one namespace (TRUE) or each run in its own (FALSE).
SessionsIdle(shared) ==
  [shared |-> shared,
   pc |-> [s \in Sessions |-> "idle"],
   cache |-> [s \in Sessions |-> None],
   valid_conn |-> [s \in Sessions |-> None],
   closed |-> [s \in Sessions |-> {}],
   onClosed |-> [s \in Sessions |-> FALSE]]

NoSessions == SessionsIdle(FALSE)

\* The process before the first script run.
ConnDefaults ==
  /\ conn_cache = None
  /\ conn = None
  /\ hstate = [h \in Handles |-> "unopened"]
  /\ herr = [h \in Handles |-> "none"]
  /\ closeAttempted = {}
  /\ nOpened = 0
  /\ store = InitialStore
  /\ pc = "idle"
  /\ fpc = "none"
  /\ fquery = NoQuery
  /\ valid_conn = None
  /\ call = NoCall
  /\ lastGVC = NoGVC
  /\ quiet = FALSE
  /\ runStmts = 0
  /\ runCalls = 0
  /\ errorShown = FALSE
  /\ stoppedAt = "none"
  /\ raised = "none"
  /\ faults = 0
  /\ sessions = NoSessions

\* The store file may be missing when the process starts.
Init ==
  /\ ConnDefaults
  /\ fileExists \in BOOLEAN
  /\ FilterDefaults
  /\ PageIdle

\* A script run begins (first load, or a rerun after a user interaction):
\* the module body executes from the top, line 18 rebinds _conn_cache.
ScriptStart ==
  /\ pc \in {"idle", "stopped", "raised"}
  /\ pc' = "connect"
  /\ conn_cache' = None
  /\ conn' = None
  /\ fpc' = "none"
  /\ runStmts' = 0
  /\ runCalls' = 0
  /\ errorShown' = FALSE
  /\ stoppedAt' = "none"
  /\ raised' = "none"
  /\ quiet' = FALSE
  /\ UNCHANGED <<hstate, herr, closeAttempted, nOpened, fileExists, store, fquery,
                 valid_conn, call, lastGVC, faults, filterVars, pageVars, sessions>>

\* Line 116: conn = get_valid_connection().
ScriptConnect(closeRaises) ==
  /\ pc = "connect"
  /\ LET r == get_valid_connection(Globals, closeRaises) IN
       /\ ApplyGVC(Globals, r, 0, quiet)
       /\ conn' = r.ret
       /\ pc' = AfterOutcome(r.outcome, "body")
       /\ stoppedAt' = IF r.outcome = "stop" THEN "connect" ELSE stoppedAt
  /\ UNCHANGED <<herr, fileExists, store, fpc, fquery, valid_conn, call, runCalls,
                 faults, filterVars, pageVars, sessions>>

\* Lines 105-113 as called at line 292: conn = ensure_valid_connection(conn).
ensure_valid_connection(closeRaises) ==
  /\ pc = "body"
  /\ fpc = "none"
  /\ runCalls < MaxCalls
  /\ runCalls' = runCalls + 1
  /\ LET e == IF conn = None THEN "ProgrammingError" ELSE ProbeError(hstate, conn)
         n == IF conn = None THEN 0 ELSE 1
         r == get_valid_connection(Globals, closeRaises)
     IN IF conn # None /\ e = "none" THEN
          /\ runStmts' = runStmts + 1
          /\ UNCHANGED <<conn, conn_cache, hstate, closeAttempted, nOpened, lastGVC,
                         quiet, errorShown, raised, pc, stoppedAt>>
        ELSE IF conn # None /\ e \notin CaughtEnsure THEN
          /\ runStmts' = runStmts + 1
          /\ raised' = e
          /\ pc' = "raised"
          /\ quiet' = FALSE
          /\ UNCHANGED <<conn, conn_cache, hstate, closeAttempted, nOpened, lastGVC,
                         errorShown, stoppedAt>>
        ELSE
          /\ ApplyGVC(Globals, r, n, FALSE)
          /\ conn' = IF r.outcome = "return" THEN r.ret ELSE conn
          /\ pc' = AfterOutcome(r.outcome, "body")
          /\ stoppedAt' = IF r.outcome = "stop" THEN "ensure_valid_connection"
                          ELSE stoppedAt
  /\ UNCHANGED <<herr, fileExists, store, fpc, fquery, valid_conn, call, faults,
                 filterVars, pageVars, sessions>>

\* Lines 56-59: fetch_query(q, conn) is called and obtains valid_conn.
FetchCall(q, closeRaises) ==
  /\ pc = "body"
  /\ fpc = "none"
  /\ runCalls < MaxCalls
  /\ runCalls' = runCalls + 1
  /\ LET r == get_valid_connection(Globals, closeRaises) IN
       /\ ApplyGVC(Globals, r, 0, quiet)
       /\ valid_conn' = r.ret
       /\ fquery' = q
       /\ fpc' = IF r.outcome = "return" THEN "exec1" ELSE "none"
       /\ pc' = AfterOutcome(r.outcome, "body")
       /\ stoppedAt' = IF r.outcome = "stop" THEN "fetch_query" ELSE stoppedAt
       /\ call' = [NoCall EXCEPT
                     !.q = q,
                     !.outcome = IF r.outcome = "return" THEN "running" ELSE r.outcome,
                     !.h1 = r.ret,
                     !.cacheAtCall = conn_cache,
                     !.errAtCall = IF conn_cache = None THEN "none"
                                   ELSE StmtError(hstate, conn_cache),
                     !.fileAtCall = fileExists]
  /\ UNCHANGED <<conn, herr, fileExists, store, faults, filterVars, pageVars, sessions>>

\* Lines 61-72: the first pd.read_sql_query and, when it raises a class of
\* the except tuple, the handler up to the second get_valid_connection().
FetchExec1(closeRaises) ==
  /\ fpc = "exec1"
  /\ LET e  == ExecError(hstate, valid_conn, fquery)
         g0 == Globals
         g1 == IF g0.cache # None
               THEN Discard(g0, g0.cache, closeRaises)
               ELSE g0
         r  == get_valid_connection(g1, FALSE)
     IN /\ store' = ExecuteStatements(hstate, valid_conn, fquery, store)
        /\ IF e = "none" THEN
             /\ fpc' = "none"
             /\ call' = [call EXCEPT !.n = 1, !.outcome = "table",
                                     !.table = Table(fquery, store)]
             /\ runStmts' = runStmts + 1
             /\ UNCHANGED <<conn_cache, hstate, closeAttempted, nOpened, lastGVC,
                            quiet, errorShown, raised, pc, stoppedAt, valid_conn>>
           ELSE IF e \in CaughtQuery THEN
             /\ ApplyGVC(g1, r, 1, FALSE)
             /\ valid_conn' = r.ret
             /\ fpc' = IF r.outcome = "return" THEN "exec2" ELSE "none"
             /\ pc' = AfterOutcome(r.outcome, "body")
             /\ stoppedAt' = IF r.outcome = "stop" THEN "fetch_query" ELSE stoppedAt
             /\ call' = [call EXCEPT !.n = 1, !.e1 = e, !.h2 = r.ret,
                                     !.cacheAtFail = conn_cache,
                                     !.nOpenedAtFail = nOpened,
                                     !.outcome = IF r.outcome = "return"
                                                 THEN "running" ELSE r.outcome]
           ELSE
             /\ fpc' = "none"
             /\ pc' = "raised"
             /\ raised' = e
             /\ quiet' = FALSE
             /\ call' = [call EXCEPT !.n = 1, !.e1 = e, !.outcome = "raise"]
             /\ runStmts' = runStmts + 1
             /\ UNCHANGED <<conn_cache, hstate, closeAttempted, nOpened, lastGVC,
                            errorShown, stoppedAt, valid_conn>>
  /\ UNCHANGED <<conn, herr, fileExists, fquery, runCalls, faults, filterVars,
                 pageVars, sessions>>

\* Line 73: the second pd.read_sql_query, outside any try.
FetchExec2 ==
  /\ fpc = "exec2"
  /\ LET e == ExecError(hstate, valid_conn, fquery) IN
       /\ store' = ExecuteStatements(hstate, valid_conn, fquery, store)
       /\ fpc' = "none"
       /\ runStmts' = runStmts + 1
       /\ IF e = "none" THEN
            /\ call' = [call EXCEPT !.n = 2, !.outcome = "table",
                                    !.table = Table(fquery, store)]
            /\ UNCHANGED <<pc, raised, quiet>>
          ELSE
            /\ call' = [call EXCEPT !.n = 2, !.e2 = e, !.outcome = "raise"]
            /\ pc' = "raised"
            /\ raised' = e
            /\ quiet' = FALSE
  /\ UNCHANGED <<conn_cache, conn, hstate, herr, closeAttempted, nOpened, fileExists,
                 fquery, valid_conn, lastGVC, runCalls, errorShown, stoppedAt,
                 faults, filterVars, pageVars, sessions>>

\* The script reaches its last line.
ScriptEnd ==
  /\ pc = "body"
  /\ fpc = "none"
  /\ pc' = "idle"
  /\ UNCHANGED <<conn_cache, conn, hstate, herr, closeAttempted, nOpened, fileExists,
                 store, fpc, fquery, valid_conn, call, lastGVC, quiet, runStmts,
                 runCalls, errorShown, stoppedAt, raised, faults, filterVars, pageVars, sessions>>

\* ---------------------------------------------------------- environment

\* The cached handle is invalidated underneath the program.
Invalidate(cls) ==
  /\ pc = "body"
  /\ faults < MaxFaults
  /\ conn_cache # None
  /\ hstate[conn_cache] = "open"
  /\ herr[conn_cache] = "none"
  /\ herr' = [herr EXCEPT ![conn_cache] = cls]
  /\ faults' = faults + 1
  /\ quiet' = FALSE
  /\ call' = IF fpc = "none" THEN call ELSE [call EXCEPT !.midFaults = @ + 1]
  /\ UNCHANGED <<conn_cache, conn, hstate, closeAttempted, nOpened, fileExists,
                 store, pc, fpc, fquery, valid_conn, lastGVC, runStmts, runCalls,
                 errorShown, stoppedAt, raised, filterVars, pageVars, sessions>>

\* The store file disappears.
RemoveFile ==
  /\ fileExists
  /\ faults < MaxFaults
  /\ fileExists' = FALSE
  /\ faults' = faults + 1
  /\ call' = IF fpc = "none" THEN call ELSE [call EXCEPT !.midFaults = @ + 1]
  /\ UNCHANGED <<conn_cache, conn, hstate, herr, closeAttempted, nOpened, store, pc,
                 fpc, fquery, valid_conn, lastGVC, quiet, runStmts, runCalls,
                 errorShown, stoppedAt, raised, filterVars, pageVars, sessions>>

\* The store file is put back.
RestoreFile ==
  /\ ~fileExists
  /\ fileExists' = TRUE
  /\ UNCHANGED <<conn_cache, conn, hstate, herr, closeAttempted, nOpened, store, pc,
                 fpc, fquery, valid_conn, call, lastGVC, quiet, runStmts, runCalls,
                 errorShown, stoppedAt, raised, faults, filterVars, pageVars, sessions>>

Next ==
  \/ ScriptStart
  \/ \E cr \in BOOLEAN : ScriptConnect(cr)
  \/ \E cr \in BOOLEAN : ensure_valid_connection(cr)
  \/ \E q \in Queries, cr \in BOOLEAN : FetchCall(q, cr)
  \/ \E cr \in BOOLEAN : FetchExec1(cr)
  \/ FetchExec2
  \/ ScriptEnd
  \/ \E cls \in FaultClasses : Invalidate(cls)
  \/ RemoveFile
  \/ RestoreFile

Spec == Init /\ [][Next]_vars

\* ------------------------------------------------- sidebar interactions

\* Every interaction reruns the script, which reads the widgets and calls
\* build_where_clause on the page it renders.
Rerender ==
  /\ where_clause' = build_where_clause(FilterState')
  /\ interacted' = TRUE
  /\ limpou' = FALSE
  /\ UNCHANGED <<connVars, pageVars, sessions>>

\* seq without its i-th element.
RemoveAt(seq, i) == SubSeq(seq, 1, i - 1) \o SubSeq(seq, i + 1, Len(seq))

\* Lines 155-160: the user adds a category to the multiselect.
SelectCategoria(v) ==
  /\ Len(filtro_categoria) < MaxSel
  /\ v \notin Range(filtro_categoria)
  /\ filtro_categoria' = Append(filtro_categoria, v)
  /\ UNCHANGED <<filtro_modalidade, filtro_estado, use_date_filter, filtro_data_inicio,
                 filtro_data_fim, use_value_filter, filtro_valor_min, filtro_valor_max>>
  /\ Rerender

\* The user removes a category from the multiselect.
DeselectCategoria(i) ==
  /\ i \in 1..Len(filtro_categoria)
  /\ filtro_categoria' = RemoveAt(filtro_categoria, i)
  /\ UNCHANGED <<filtro_modalidade, filtro_estado, use_date_filter, filtro_data_inicio,
                 filtro_data_fim, use_value_filter, filtro_valor_min, filtro_valor_max>>
  /\ Rerender

\* Lines 163-168.
SelectModalidade(v) ==
  /\ Len(filtro_modalidade) < MaxSel
  /\ v \notin Range(filtro_modalidade)
  /\ filtro_modalidade' = Append(filtro_modalidade, v)
  /\ UNCHANGED <<filtro_categoria, filtro_estado, use_date_filter, filtro_data_inicio,
                 filtro_data_fim, use_value_filter, filtro_valor_min, filtro_valor_max>>
  /\ Rerender

DeselectModalidade(i) ==
  /\ i \in 1..Len(filtro_modalidade)
  /\ filtro_modalidade' = RemoveAt(filtro_modalidade, i)
  /\ UNCHANGED <<filtro_categoria, filtro_estado, use_date_filter, filtro_data_inicio,
                 filtro_data_fim, use_value_filter, filtro_valor_min, filtro_valor_max>>
  /\ Rerender

\* Lines 171-176.
SelectEstado(v) ==
  /\ Len(filtro_estado) < MaxSel
  /\ v \notin Range(filtro_estado)
  /\ filtro_estado' = Append(filtro_estado, v)
  /\ UNCHANGED <<filtro_categoria, filtro_modalidade, use_date_filter,
                 filtro_data_inicio, filtro_data_fim, use_value_filter,
                 filtro_valor_min, filtro_valor_max>>
  /\ Rerender

DeselectEstado(i) ==
  /\ i \in 1..Len(filtro_estado)
  /\ filtro_estado' = RemoveAt(filtro_estado, i)
  /\ UNCHANGED <<filtro_categoria, filtro_modalidade, use_date_filter,
                 filtro_data_inicio, filtro_data_fim, use_value_filter,
                 filtro_valor_min, filtro_valor_max>>
  /\ Rerender

\* Lines 180-200: the period checkbox.  Ticked, the two date inputs appear
\* with their defaults, the oldest and newest payment dates of the store
\* (no value when the store has no dated payment); unticked, both are None.
ToggleDate(hasDates) ==
  /\ use_date_filter' = ~use_date_filter
  /\ filtro_data_inicio' =
       IF use_date_filter' /\ hasDates
       THEN CHOOSE d \in Dates : \A e \in Dates : d <= e ELSE NoDate
  /\ filtro_data_fim' =
       IF use_date_filter' /\ hasDates
       THEN CHOOSE d \in Dates : \A e \in Dates : d >= e ELSE NoDate
  /\ UNCHANGED <<filtro_categoria, filtro_modalidade, filtro_estado,
                 use_value_filter, filtro_valor_min, filtro_valor_max>>
  /\ Rerender

\* Lines 183-189: the user picks (or clears) the start date.
SetDataInicio(d) ==
  /\ use_date_filter
  /\ d # filtro_data_inicio
  /\ filtro_data_inicio' = d
  /\ UNCHANGED <<filtro_categoria, filtro_modalidade, filtro_estado, use_date_filter,
                 filtro_data_fim, use_value_filter, filtro_valor_min, filtro_valor_max>>
  /\ Rerender

\* Lines 191-197: the user picks (or clears) the end date.
SetDataFim(d) ==
  /\ use_date_filter
  /\ d # filtro_data_fim
  /\ filtro_data_fim' = d
  /\ UNCHANGED <<filtro_categoria, filtro_modalidade, filtro_estado, use_date_filter,
                 filtro_data_inicio, use_value_filter, filtro_valor_min,
                 filtro_valor_max>>
  /\ Rerender

\* Lines 204-224: the value checkbox.  Ticked, the two number inputs appear
\* with value 0.0; unticked, both bounds are 0.0.
ToggleValue ==
  /\ use_value_filter' = ~use_value_filter
  /\ filtro_valor_min' = 0
  /\ filtro_valor_max' = 0
  /\ UNCHANGED <<filtro_categoria, filtro_modalidade, filtro_estado, use_date_filter,
                 filtro_data_inicio, filtro_data_fim>>
  /\ Rerender

\* Lines 207-213.
SetValorMin(v) ==
  /\ use_value_filter
  /\ v # filtro_valor_min
  /\ filtro_valor_min' = v
  /\ UNCHANGED <<filtro_categoria, filtro_modalidade, filtro_estado, use_date_filter,
                 filtro_data_inicio, filtro_data_fim, use_value_filter,
                 filtro_valor_max>>
  /\ Rerender

\* Lines 215-221.
SetValorMax(v) ==
  /\ use_value_filter
  /\ v # filtro_valor_max
  /\ filtro_valor_max' = v
  /\ UNCHANGED <<filtro_categoria, filtro_modalidade, filtro_estado, use_date_filter,
                 filtro_data_inicio, filtro_data_fim, use_value_filter,
                 filtro_valor_min>>
  /\ Rerender

\* Lines 262-263: the button reruns the script; the widgets keep their
\* values across a rerun.
LimparFiltros ==
  /\ UNCHANGED <<filtro_categoria, filtro_modalidade, filtro_estado, use_date_filter,
                 filtro_data_inicio, filtro_data_fim, use_value_filter,
                 filtro_valor_min, filtro_valor_max>>
  /\ where_clause' = build_where_clause(FilterState')
  /\ interacted' = TRUE
  /\ limpou' = TRUE
  /\ UNCHANGED <<connVars, pageVars, sessions>>

InitWhere ==
  /\ ConnDefaults
  /\ fileExists = TRUE
  /\ FilterDefaults
  /\ PageIdle

NextWhere ==
  \/ \E v \in CategoriaOptions : SelectCategoria(v)
  \/ \E i \in 1..MaxSel : DeselectCategoria(i)
  \/ \E v \in ModalidadeOptions : SelectModalidade(v)
  \/ \E i \in 1..MaxSel : DeselectModalidade(i)
  \/ \E v \in EstadoOptions : SelectEstado(v)
  \/ \E i \in 1..MaxSel : DeselectEstado(i)
  \/ \E hasDates \in BOOLEAN : ToggleDate(hasDates)
  \/ \E d \in Dates \cup {NoDate} : SetDataInicio(d)
  \/ \E d \in Dates \cup {NoDate} : SetDataFim(d)
  \/ ToggleValue
  \/ \E v \in Valores : SetValorMin(v)
  \/ \E v \in Valores : SetValorMax(v)
  \/ LimparFiltros

SpecWhere == InitWhere /\ [][NextWhere]_vars

\* ------------------------------------------------------ page renders

\* The pages of the radio, lines 120-124.
Pages ==
  {"Visão Geral", "Análise por Categoria", "Análise por Modalidade",
   "Análise por Região", "Análise Temporal", "Busca de Atletas", "Dados Brutos"}

\* The payment of key i: categories 1 and 3, modalities 1 and 2, athletes 1
\* and 2 (of different states), two dates and three amounts take turns.
Payment(i) ==
  [id_pagamento |-> i,
   id_categoria |-> IF i % 2 = 1 THEN 1 ELSE 3,
   id_modalidade |-> ((i - 1) % 2) + 1,
   cpf |-> IF i % 3 = 1 THEN 1 ELSE 2,
   data |-> IF i % 2 = 1 THEN 2 ELSE 10,
   valor |-> ((i - 1) % 3) + 1]

\* The payments the store may come to hold: every foreign key resolves.
PaymentPool == { Payment(i) : i \in 1..MaxPagamentos }

Stores == SUBSET PaymentPool

sidebarVars ==
  <<filtro_categoria, filtro_modalidade, filtro_estado, use_date_filter,
    filtro_data_inicio, filtro_data_fim, use_value_filter, filtro_valor_min,
    filtro_valor_max>>

\* One run of the script, top to bottom, on a live handle: the cached
\* filter options (line 149), the sidebar (lines 154-263), then the page.
RunScript(pressed) ==
  /\ where_clause' = build_where_clause(FilterState')
  /\ interacted' = TRUE
  /\ limpou' = pressed
  /\ filter_options' = get_filter_options(filter_options, pagamento')
  /\ views' = RenderPage(page', where_clause', Locals', pagamento')
  /\ UNCHANGED <<connVars, sessions>>

\* The user picks another page; the widgets of the page left are gone, the
\* ones of the page entered start at their defaults.
Navigate(pg) ==
  /\ pg # page
  /\ page' = pg
  /\ SetLocals(LocalDefaults)
  /\ UNCHANGED <<sidebarVars, pagamento>>
  /\ RunScript(FALSE)

\* Lines 155-160: a click on an option of the category multiselect adds it
\* or removes it.
SidebarCategoria(v) ==
  /\ v \in Range(filtro_categoria) \/ Len(filtro_categoria) < MaxSel
  /\ filtro_categoria' =
       IF v \in Range(filtro_categoria)
       THEN SelectSeq(filtro_categoria, LAMBDA x : x # v)
       ELSE Append(filtro_categoria, v)
  /\ UNCHANGED <<filtro_modalidade, filtro_estado, use_date_filter, filtro_data_inicio,
                 filtro_data_fim, use_value_filter, filtro_valor_min, filtro_valor_max>>
  /\ UNCHANGED <<pagamento, page, localVars>>
  /\ RunScript(FALSE)

\* Lines 171-176.
SidebarEstado(v) ==
  /\ v \in Range(filtro_estado) \/ Len(filtro_estado) < MaxSel
  /\ filtro_estado' =
       IF v \in Range(filtro_estado)
       THEN SelectSeq(filtro_estado, LAMBDA x : x # v)
       ELSE Append(filtro_estado, v)
  /\ UNCHANGED <<filtro_categoria, filtro_modalidade, use_date_filter,
                 filtro_data_inicio, filtro_data_fim, use_value_filter,
                 filtro_valor_min, filtro_valor_max>>
  /\ UNCHANGED <<pagamento, page, localVars>>
  /\ RunScript(FALSE)

\* Lines 262-263 on any page: a rerun with every widget as it was.
LimparFiltrosPage ==
  /\ UNCHANGED <<sidebarVars, pagamento, page, localVars>>
  /\ RunScript(TRUE)

\* Line 748.
SelecionaCategoria(c) ==
  /\ page = "Análise por Categoria"
  /\ c # categoria_selecionada
  /\ categoria_selecionada' = c
  /\ UNCHANGED <<modalidade_selecionada, estado_selecionado, tipo_agrupamento, busca,
                 atleta_selecionado, tabela_selecionada>>
  /\ UNCHANGED <<sidebarVars, pagamento, page>>
  /\ RunScript(FALSE)

\* Line 821.
SelecionaModalidade(m) ==
  /\ page = "Análise por Modalidade"
  /\ m # modalidade_selecionada
  /\ modalidade_selecionada' = m
  /\ UNCHANGED <<categoria_selecionada, estado_selecionado, tipo_agrupamento, busca,
                 atleta_selecionado, tabela_selecionada>>
  /\ UNCHANGED <<sidebarVars, pagamento, page>>
  /\ RunScript(FALSE)

\* Line 899.
SelecionaEstado(u) ==
  /\ page = "Análise por Região"
  /\ u # estado_selecionado
  /\ estado_selecionado' = u
  /\ UNCHANGED <<categoria_selecionada, modalidade_selecionada, tipo_agrupamento,
                 busca, atleta_selecionado, tabela_selecionada>>
  /\ UNCHANGED <<sidebarVars, pagamento, page>>
  /\ RunScript(FALSE)

\* Line 987.
AgrupaPor(t) ==
  /\ page = "Análise Temporal"
  /\ t # tipo_agrupamento
  /\ tipo_agrupamento' = t
  /\ UNCHANGED <<categoria_selecionada, modalidade_selecionada, estado_selecionado,
                 busca, atleta_selecionado, tabela_selecionada>>
  /\ UNCHANGED <<sidebarVars, pagamento, page>>
  /\ RunScript(FALSE)

\* Line 1061: the user types a text; the athlete selectbox starts over.
Busca(texto) ==
  /\ page = "Busca de Atletas"
  /\ texto # busca
  /\ busca' = texto
  /\ atleta_selecionado' = <<>>
  /\ UNCHANGED <<categoria_selecionada, modalidade_selecionada, estado_selecionado,
                 tipo_agrupamento, tabela_selecionada>>
  /\ UNCHANGED <<sidebarVars, pagamento, page>>
  /\ RunScript(FALSE)

\* Line 1090: the user picks one of the names of the search result.
SelecionaAtleta(nome) ==
  /\ page = "Busca de Atletas"
  /\ views # <<>>
  /\ views[1].ok
  /\ \E i \in DOMAIN views[1].df : views[1].df[i].key[2] = nome
  /\ nome # atleta_selecionado
  /\ atleta_selecionado' = nome
  /\ UNCHANGED <<categoria_selecionada, modalidade_selecionada, estado_selecionado,
                 tipo_agrupamento, busca, tabela_selecionada>>
  /\ UNCHANGED <<sidebarVars, pagamento, page>>
  /\ RunScript(FALSE)

\* Line 1139.
SelecionaTabela(t) ==
  /\ page = "Dados Brutos"
  /\ t # tabela_selecionada
  /\ tabela_selecionada' = t
  /\ UNCHANGED <<categoria_selecionada, modalidade_selecionada, estado_selecionado,
                 tipo_agrupamento, busca, atleta_selecionado>>
  /\ UNCHANGED <<sidebarVars, pagamento, page>>
  /\ RunScript(FALSE)

\* The process that maintains the store appends a payment; no script run.
Ingest(p) ==
  /\ \A q \in pagamento : q.id_pagamento # p.id_pagamento
  /\ pagamento' = pagamento \cup {p}
  /\ UNCHANGED <<connVars, filterVars, page, localVars, filter_options, views,
                 sessions>>

\* The first run of the script on a store, with every widget at its default.
InitPages ==
  /\ ConnDefaults
  /\ fileExists = TRUE
  /\ FilterDefaults
  /\ pagamento \in Stores
  /\ page = "Visão Geral"
  /\ InitLocals
  /\ filter_options = get_filter_options(NoOptions, pagamento)
  /\ views = RenderPage(page, where_clause, Locals, pagamento)

NextPages ==
  \/ \E pg \in Pages : Navigate(pg)
  \/ \E v \in {<<"P">>, <<"d", "'", "O">>} : SidebarCategoria(v)
  \/ \E v \in {<<"S", "P">>} : SidebarEstado(v)
  \/ LimparFiltrosPage
  \/ \E c \in {Todas, <<"P">>, <<"d", "'", "O">>} : SelecionaCategoria(c)
  \/ \E m \in {Todas} \cup ModalidadeOptions : SelecionaModalidade(m)
  \/ \E u \in {Todos, <<"S", "P">>, <<"R", "J">>} : SelecionaEstado(u)
  \/ \E t \in {"Ano", "Mês", "Ano-Mês"} : AgrupaPor(t)
  \/ \E texto \in {<<>>, <<"a">>, <<"Z">>, <<"'">>} : Busca(texto)
  \/ \E nome \in { AtletaTable[i].nome : i \in DOMAIN AtletaTable } :
       SelecionaAtleta(nome)
  \/ \E t \in {"pagamento", "categoria", "edital"} : SelecionaTabela(t)
  \/ \E p \in PaymentPool : Ingest(p)

SpecPages == InitPages /\ [][NextPages]_vars

\* ---- a store with more groups than a "Top 10" keeps

\* One payment per modality, each to another athlete, amounts taking turns
\* from shift s on; and a second payment, to another athlete, for every
\* modality but the last.
MainPayment(k, s) ==
  [id_pagamento |-> k,
   id_categoria |-> IF k % 2 = 1 THEN 1 ELSE 3,
   id_modalidade |-> k,
   cpf |-> ((k - 1) % NumMunicipios) + 1,
   data |-> IF k % 2 = 1 THEN 2 ELSE 10,
   valor |-> ((k + s) % 3) + 1]

SecondPayment(k) ==
  [id_pagamento |-> NumModalidades + k,
   id_categoria |-> 1,
   id_modalidade |-> k,
   cpf |-> (k % NumMunicipios) + 1,
   data |-> 10,
   valor |-> 1]

TopStores ==
  { { MainPayment(k, s) : k \in 1..NumModalidades }
      \cup (IF b THEN { SecondPayment(k) : k \in 1..(NumModalidades - 1) } ELSE {}) :
    s \in 0..2, b \in BOOLEAN }

InitTop ==
  /\ ConnDefaults
  /\ fileExists = TRUE
  /\ FilterDefaults
  /\ pagamento \in TopStores
  /\ page = "Visão Geral"
  /\ InitLocals
  /\ filter_options = get_filter_options(NoOptions, pagamento)
  /\ views = RenderPage(page, where_clause, Locals, pagamento)

NextTop ==
  \/ \E pg \in Pages : Navigate(pg)
  \/ \E v \in {<<"P">>} : SidebarCategoria(v)
  \/ \E v \in {<<"S", "P">>} : SidebarEstado(v)
  \/ \E u \in {Todos, <<"S", "P">>} : SelecionaEstado(u)
  \/ \E texto \in {<<>>, <<"a">>} : Busca(texto)

SpecTop == InitTop /\ [][NextTop]_vars

\* ---- the overview page under the sidebar filters

\* Lines 180-200: the period checkbox.  Ticked, the two date inputs show
\* their defaults, min_date and max_date of filter_options (no value when
\* it holds none); unticked, both dates are None.
SidebarPeriodo ==
  /\ use_date_filter' = ~use_date_filter
  /\ filtro_data_inicio' = IF use_date_filter' THEN filter_options.min_date ELSE NoDate
  /\ filtro_data_fim' = IF use_date_filter' THEN filter_options.max_date ELSE NoDate
  /\ UNCHANGED <<filtro_categoria, filtro_modalidade, filtro_estado, use_value_filter,
                 filtro_valor_min, filtro_valor_max>>
  /\ UNCHANGED <<pagamento, page, localVars>>
  /\ RunScript(FALSE)

\* The first run of the script on a store: the overview page, no filter.
InitOverview ==
  /\ ConnDefaults
  /\ fileExists = TRUE
  /\ FilterDefaults
  /\ pagamento \in Stores
  /\ page = "Visão Geral"
  /\ InitLocals
  /\ filter_options = get_filter_options(NoOptions, pagamento)
  /\ views = RenderPage(page, where_clause, Locals, pagamento)

NextOverview ==
  \/ \E v \in {<<"P">>} : SidebarCategoria(v)
  \/ \E v \in EstadoOptions : SidebarEstado(v)
  \/ SidebarPeriodo

SpecOverview == InitOverview /\ [][NextOverview]_vars

\* ---- sessions served in parallel

\* The globals session s reads and writes.
SessionGlobals(s) ==
  [cache |-> sessions.cache[s], hstate |-> hstate, closeAttempted |-> closeAttempted,
   nOpened |-> nOpened]

\* _conn_cache bound to c by session s.
BindCache(s, c) ==
  IF sessions.shared THEN [t \in Sessions |-> c]
  ELSE [sessions.cache EXCEPT ![s] = c]

\* The handles that went from hs to closed in globals g.
NewlyClosed(hs, g) == { h \in Handles : hs[h] # "closed" /\ g.hstate[h] = "closed" }

\* The globals g left by a call of session s, which goes on at position next.
SessionApply(s, g, next, vc) ==
  /\ hstate' = g.hstate
  /\ closeAttempted' = g.closeAttempted
  /\ nOpened' = g.nOpened
  /\ sessions' = [sessions EXCEPT !.cache = BindCache(s, g.cache),
                                  !.pc[s] = next,
                                  !.valid_conn[s] = vc,
                                  !.closed[s] = @ \cup NewlyClosed(hstate, g)]

sessionFrame ==
  <<conn_cache, conn, herr, fileExists, store, pc, fpc, fquery, valid_conn, call,
    lastGVC, quiet, runStmts, runCalls, errorShown, stoppedAt, raised>>

\* Line 18 at the start of a run of session s.
SessionStart(s) ==
  /\ sessions.pc[s] = "idle"
  /\ sessions' = [sessions EXCEPT !.cache = BindCache(s, None), !.pc[s] = "connect",
                                  !.valid_conn[s] = None]
  /\ UNCHANGED <<sessionFrame, hstate, closeAttempted, nOpened, faults, filterVars,
                 pageVars>>

\* get_valid_connection() by session s: line 116, or line 59 in fetch_query.
SessionGetValid(s, closeRaises) ==
  /\ sessions.pc[s] \in {"connect", "ready"}
  /\ LET r == get_valid_connection(SessionGlobals(s), closeRaises)
     IN /\ r.outcome \in {"return", "raise"}
        /\ SessionApply(s, r.g,
                        IF r.outcome = "raise" THEN "idle"
                        ELSE IF sessions.pc[s] = "connect" THEN "ready" ELSE "exec",
                        IF sessions.pc[s] = "connect" THEN None ELSE r.ret)
  /\ UNCHANGED <<sessionFrame, faults, filterVars, pageVars>>

\* Session s runs a query on handle h that another session closed.
OnClosedByOther(s, h) ==
  hstate[h] = "closed" /\ \E t \in Sessions \ {s} : h \in sessions.closed[t]

\* pd.read_sql_query(query, valid_conn), lines 62 and 73: the first try goes
\* on to the handler when the error is one of line 63, the retry does not.
SessionExec(s) ==
  /\ sessions.pc[s] \in {"exec", "retry"}
  /\ LET h == sessions.valid_conn[s]
         e == StmtError(hstate, h)
     IN sessions' =
          [sessions EXCEPT
             !.pc[s] = IF e = "none" THEN "ready"
                       ELSE IF sessions.pc[s] = "exec" /\ e \in CaughtQuery THEN "handler"
                       ELSE "idle",
             !.onClosed[s] = @ \/ OnClosedByOther(s, h)]
  /\ UNCHANGED <<sessionFrame, hstate, closeAttempted, nOpened, faults, filterVars,
                 pageVars>>

\* Lines 65-72: close the cached handle if there is one, forget it, and get
\* a valid handle again.
SessionHandler(s, closeRaises) ==
  /\ sessions.pc[s] = "handler"
  /\ LET g0 == SessionGlobals(s)
         g1 == IF g0.cache # None
               THEN Discard(g0, g0.cache, closeRaises)
               ELSE g0
         r  == get_valid_connection(g1, FALSE)
     IN /\ r.outcome = "return"
        /\ SessionApply(s, r.g, "retry", r.ret)
  /\ UNCHANGED <<sessionFrame, faults, filterVars, pageVars>>

\* The run of session s ends.
SessionEnd(s) ==
  /\ sessions.pc[s] = "ready"
  /\ sessions' = [sessions EXCEPT !.pc[s] = "idle"]
  /\ UNCHANGED <<sessionFrame, hstate, closeAttempted, nOpened, faults, filterVars,
                 pageVars>>

\* An open handle is invalidated underneath the program.
SessionFault(h, cls) ==
  /\ faults < MaxFaults
  /\ hstate[h] = "open"
  /\ herr[h] = "none"
  /\ herr' = [herr EXCEPT ![h] = cls]
  /\ faults' = faults + 1
  /\ UNCHANGED <<conn_cache, conn, hstate, closeAttempted, nOpened, fileExists, store,
                 pc, fpc, fquery, valid_conn, call, lastGVC, quiet, runStmts, runCalls,
                 errorShown, stoppedAt, raised, filterVars, pageVars, sessions>>

InitSessions ==
  /\ conn_cache = None
  /\ conn = None
  /\ hstate = [h \in Handles |-> "unopened"]
  /\ herr = [h \in Handles |-> "none"]
  /\ closeAttempted = {}
  /\ nOpened = 0
  /\ store = InitialStore
  /\ pc = "idle"
  /\ fpc = "none"
  /\ fquery = NoQuery
  /\ valid_conn = None
  /\ call = NoCall
  /\ lastGVC = NoGVC
  /\ quiet = FALSE
  /\ runStmts = 0
  /\ runCalls = 0
  /\ errorShown = FALSE
  /\ stoppedAt = "none"
  /\ raised = "none"
  /\ faults = 0
  /\ fileExists = TRUE
  /\ sessions \in { SessionsIdle(shared) : shared \in BOOLEAN }
  /\ FilterDefaults
  /\ PageIdle

NextSessions ==
  \/ \E s \in Sessions : SessionStart(s)
  \/ \E s \in Sessions, cr \in BOOLEAN : SessionGetValid(s, cr)
  \/ \E s \in Sessions : SessionExec(s)
  \/ \E s \in Sessions, cr \in BOOLEAN : SessionHandler(s, cr)
  \/ \E s \in Sessions : SessionEnd(s)
  \/ \E h \in Handles, cls \in FaultClasses : SessionFault(h, cls)

SpecSessions == InitSessions /\ [][NextSessions]_vars

\* ----------------------------------------------------------------- claims

\* The error classes the specification calls "connection lost".
ConnLostKinds == {"ProgrammingError", "OperationalError", "InterfaceError"}

\* A fetch_query call is over (it returned, raised or was halted).
CallOver == call.outcome \in {"table", "raise", "stop"}

C1_Inv ==
  /\ call.n <= 2
  /\ fpc = "exec2" =>
       /\ call.n = 1
       /\ call.e1 \in ConnLostKinds
       /\ valid_conn = conn_cache
       /\ valid_conn > call.nOpenedAtFail
       /\ hstate[valid_conn] = "open"
       /\ call.cacheAtFail \in closeAttempted
       /\ call.cacheAtFail # valid_conn

C1_Step ==
  /\ (fpc = "exec1" /\ fpc' # "exec1"
        /\ ExecError(hstate, valid_conn, fquery) \in ConnLostKinds) =>
       /\ conn_cache \in closeAttempted'
       /\ IF fileExists
          THEN fpc' = "exec2" /\ nOpened' = nOpened + 1 /\ conn_cache' = nOpened'
          ELSE pc' = "stopped" /\ conn_cache' = None /\ nOpened' = nOpened
  /\ (fpc = "exec2" /\ fpc' # "exec2") =>
       /\ fpc' = "none"
       /\ call'.n = 2
       /\ UNCHANGED <<conn_cache, hstate, closeAttempted, nOpened>>
       /\ LET e == ExecError(hstate, valid_conn, fquery) IN
            IF e = "none" THEN call'.outcome = "table" /\ pc' = pc
            ELSE call'.outcome = "raise" /\ pc' = "raised" /\ raised' = e

\* C1: when the query raises a connection-lost error inside fetch_query, the
\* cached handle is closed and dropped once and the query runs once more on
\* a handle opened after the failure; one call executes the query at most
\* twice, and an error of the second execution ends the call and the run
\* without touching the cache again.
C1_RetryOnce == []C1_Inv /\ [][C1_Step]_vars

C1_Witness ==
  /\ call.n = 2
  /\ call.e1 \in ConnLostKinds
  /\ call.e2 # "none"
  /\ call.outcome = "raise"
  /\ pc = "raised"

C2_Step ==
  (fpc = "exec1" /\ fpc' # "exec1"
     /\ ExecError(hstate, valid_conn, fquery) \notin ConnLostKinds \cup {"none"}) =>
    /\ fpc' = "none"
    /\ pc' = "raised"
    /\ raised' = ExecError(hstate, valid_conn, fquery)
    /\ call'.n = 1
    /\ call'.outcome = "raise"
    /\ UNCHANGED <<conn_cache, hstate, closeAttempted, nOpened>>

\* C2: a query error outside the connection-lost classes leaves fetch_query
\* at once: the query is executed once, the cached handle is neither closed
\* nor replaced and no handle is opened.
C2_OtherErrorPropagates == [][C2_Step]_vars

C2_Witness ==
  /\ call.n = 1
  /\ call.e1 = "DatabaseError"
  /\ call.outcome = "raise"
  /\ pc = "raised"
  /\ conn_cache # None
  /\ hstate[conn_cache] = "open"
  /\ conn_cache \notin closeAttempted

\* What get_valid_connection does with a cached handle whose probe failed
\* with a class of errs.
DiscardsAndReopens(errs) ==
  (lastGVC.probed # None /\ lastGVC.probeErr \in errs) =>
    /\ lastGVC.closeTried
    /\ lastGVC.outcome # "raise"
    /\ lastGVC.cacheAfter # lastGVC.probed
    /\ lastGVC.fileSeen =>
         /\ lastGVC.outcome = "return"
         /\ lastGVC.opened
         /\ lastGVC.ret # lastGVC.probed
         /\ lastGVC.retOpen
         /\ lastGVC.cacheAfter = lastGVC.ret

\* C3 as claimed: whatever the probe of the cached handle raises, the handle
\* is closed (errors of close swallowed), the cache cleared and, the file
\* existing, a new working handle opened, cached and returned.
C3_AnyProbeFailure == DiscardsAndReopens(ErrClasses)

\* C3: when the probe of the cached handle raises ProgrammingError,
\* OperationalError or InterfaceError, the handle is closed (errors of close
\* swallowed), the cache cleared and, the file existing, a new working handle
\* distinct from the discarded one is opened, cached and returned.  A probe
\* error of another class leaves get_valid_connection as that exception,
\* the handle neither closed nor dropped from the cache.
C3_ConnLostProbeFailure ==
  /\ DiscardsAndReopens(ConnLostKinds)
  /\ (lastGVC.probed # None /\ lastGVC.probeErr \notin ConnLostKinds \cup {"none"}) =>
       /\ lastGVC.outcome = "raise"
       /\ lastGVC.err = lastGVC.probeErr
       /\ ~lastGVC.closeTried
       /\ ~lastGVC.opened
       /\ lastGVC.cacheAfter = lastGVC.cacheBefore

C3_Witness ==
  /\ lastGVC.probed # None
  /\ lastGVC.probeErr \in ConnLostKinds
  /\ lastGVC.closeRaised
  /\ lastGVC.outcome = "return"
  /\ lastGVC.opened

OpenWithoutStore ==
  /\ lastGVC.outcome # "none"
  /\ ~lastGVC.fileSeen
  /\ (lastGVC.probed = None \/ lastGVC.probeErr \in ConnLostKinds)

\* C5 as claimed: the store file missing when a handle must be opened, the
\* run halts with the error shown, no handle opened, the cache empty and no
\* statement at all executed in that run.
C5_ZeroQueries ==
  /\ OpenWithoutStore => (lastGVC.outcome = "stop" /\ ~lastGVC.opened
                            /\ lastGVC.cacheAfter = None)
  /\ pc = "stopped" => (errorShown /\ conn_cache = None /\ runStmts = 0)

\* C5: the store file missing when a handle must be opened, the run halts
\* with the error shown, no handle opened and the cache empty; when that is
\* the connection of line 116 no statement at all is executed in that run,
\* and when it is a reopening later in the run the statements executed are
\* those that ran before the reopening.
C5_StoreAbsentHalts ==
  /\ OpenWithoutStore => (lastGVC.outcome = "stop" /\ ~lastGVC.opened
                            /\ lastGVC.cacheAfter = None)
  /\ pc = "stopped" =>
       /\ errorShown
       /\ conn_cache = None
       /\ fpc = "none"
       /\ lastGVC.outcome = "stop"
       /\ stoppedAt = "connect" => runStmts = 0
       /\ stoppedAt # "connect" => runStmts >= 1

C5_Witness ==
  /\ pc = "stopped"
  /\ stoppedAt = "connect"
  /\ runStmts = 0
  /\ nOpened = 0

\* C6: a fetch_query call that finds the cached handle lost, with the file
\* in place, a query that yields a table on a live handle and no fault during
\* the call, returns that table and raises nothing.
C6_LostHandleRecovered ==
  (CallOver /\ call.cacheAtCall # None /\ call.errAtCall \in ConnLostKinds
     /\ call.fileAtCall /\ call.midFaults = 0
     /\ Len(call.q.stmts) = 1 /\ call.q.err = "none") =>
    /\ call.outcome = "table"
    /\ call.table = Table(call.q, store)
    /\ call.n = 1

C6_Witness ==
  /\ CallOver
  /\ call.cacheAtCall # None
  /\ call.errAtCall \in ConnLostKinds
  /\ call.fileAtCall
  /\ call.midFaults = 0
  /\ call.outcome = "table"
  /\ call.h1 # call.cacheAtCall

\* C7 as claimed: a handle is opened only after a close was attempted on
\* every handle opened before it.
C7_OneHandleAtATime ==
  \A h \in Handles : h < nOpened => h \in closeAttempted

\* C8: the contents of the store never change.
C8_StoreNeverWritten == store = InitialStore

C8_Witness ==
  /\ call.q.stmts = <<"SELECT", "DELETE">>
  /\ call.n = 1
  /\ call.e1 = "DatabaseError"
  /\ call.cacheAtCall # None
  /\ call.errAtCall = "none"
  /\ call.midFaults = 0

\* The sidebar holds no filter at all.
EmptyFilterState ==
  /\ filtro_categoria = <<>>
  /\ filtro_modalidade = <<>>
  /\ filtro_estado = <<>>
  /\ ~use_date_filter
  /\ ~use_value_filter

\* C9: with the three selections empty and both toggles off,
\* build_where_clause returns None and the overview queries get no WHERE part.
C9_EmptyFilterNoPredicate ==
  EmptyFilterState =>
    /\ where_clause.isNone
    /\ OverviewWherePart(where_clause) = <<>>

C9_Witness ==
  /\ EmptyFilterState
  /\ interacted
  /\ where_clause.isNone

\* The condition built for a non-empty selection matches exactly the rows
\* whose column holds a selected value.
IsMembershipTest(column, selection, options) ==
  selection # <<>> =>
    \A v \in options :
      RowMatchesIn(InCondition(column, selection), v) <=> v \in Range(selection)

\* C10 as claimed: for every non-empty selection of categories, modalities
\* or states, the condition of that field in the last build_where_clause
\* result matches a row exactly when the row's value is selected.
C10_MembershipTest ==
  /\ where_clause = build_where_clause(FilterState)
  /\ IsMembershipTest("c.categoria", filtro_categoria, CategoriaOptions)
  /\ IsMembershipTest("m.modalidade", filtro_modalidade, ModalidadeOptions)
  /\ IsMembershipTest("mu.uf", filtro_estado, EstadoOptions)

\* The positions of a token in a text.
Positions(text, tok) == { i \in 1..Len(text) : text[i] = tok }

\* The tokens of `text` from position i up to (not including) the next
\* " AND " separator or the end.
ConditionAt(text, i) ==
  LET ends == { j \in i..Len(text) : text[j] = " AND " }
      stop == IF ends = {} THEN Len(text) + 1
              ELSE CHOOSE j \in ends : \A k \in ends : j <= k
  IN SubSeq(text, i, stop - 1)

\* The conditions on a column in a text: each starts at the column's token.
ConditionsOn(text, column) ==
  { ConditionAt(text, i) : i \in Positions(text, column) }

\* C11: with the period toggle on, a start date and no end date, the result
\* of build_where_clause holds exactly one condition on the payment date,
\* p.data_pagamento >= 'start'; with the toggle off it holds no condition on
\* the payment date, whatever dates the two inputs would hold.
C11_DateToggle ==
  /\ where_clause = build_where_clause(FilterState)
  /\ (use_date_filter /\ filtro_data_inicio # NoDate /\ filtro_data_fim = NoDate)
       => /\ Cardinality(Positions(where_clause.text, "p.data_pagamento")) = 1
          /\ ConditionsOn(where_clause.text, "p.data_pagamento")
               = { <<"p.data_pagamento", " >= ", "'">>
                   \o DateText(filtro_data_inicio) \o <<"'">> }
  /\ ~use_date_filter
       => \A i, f \in Dates \cup {NoDate} :
            Positions(build_where_clause(
                        [FilterState EXCEPT !.inicio = i, !.fim = f]).text,
                      "p.data_pagamento") = {}

C11_Witness ==
  /\ interacted
  /\ use_date_filter
  /\ filtro_data_inicio = 10
  /\ filtro_data_fim = NoDate
  /\ filtro_categoria # <<>>
  /\ Positions(where_clause.text, "p.data_pagamento") # {}

\* C12: with the value toggle on, the result of build_where_clause holds a
\* lower bound on the payment amount exactly when the minimum is above 0 and
\* an upper bound exactly when the maximum is above 0, each whatever the
\* other is, and no other condition on the amount; with the toggle off it
\* holds no condition on the amount, whatever the two inputs would hold.
C12_ValueToggle ==
  /\ where_clause = build_where_clause(FilterState)
  /\ use_value_filter
       => ConditionsOn(where_clause.text, "p.valor_pago")
            = (IF filtro_valor_min > 0
               THEN { <<"p.valor_pago", " >= ", ToString(filtro_valor_min)>> }
               ELSE {})
              \cup
              (IF filtro_valor_max > 0
               THEN { <<"p.valor_pago", " <= ", ToString(filtro_valor_max)>> }
               ELSE {})
  /\ use_value_filter
       => Cardinality(Positions(where_clause.text, "p.valor_pago"))
            = (IF filtro_valor_min > 0 THEN 1 ELSE 0)
              + (IF filtro_valor_max > 0 THEN 1 ELSE 0)
  /\ ~use_value_filter
       => \A lo, hi \in Valores :
            Positions(build_where_clause(
                        [FilterState EXCEPT !.vmin = lo, !.vmax = hi]).text,
                      "p.valor_pago") = {}

C12_Witness ==
  /\ interacted
  /\ use_value_filter
  /\ filtro_valor_min = 0
  /\ filtro_valor_max = 2
  /\ Cardinality(Positions(where_clause.text, "p.valor_pago")) = 1

\* A row satisfies the condition of every enabled field of a Filter State.
SatisfiesEnabled(row, fs) ==
  /\ fs.categoria # <<>> => row.categoria \in Range(fs.categoria)
  /\ fs.modalidade # <<>> => row.modalidade \in Range(fs.modalidade)
  /\ fs.estado # <<>> => row.uf \in Range(fs.estado)
  /\ (fs.use_date /\ fs.inicio # NoDate) => row.data >= fs.inicio
  /\ (fs.use_date /\ fs.fim # NoDate) => row.data <= fs.fim
  /\ (fs.use_value /\ fs.vmin > 0) => row.valor >= fs.vmin
  /\ (fs.use_value /\ fs.vmax > 0) => row.valor <= fs.vmax

\* The number of conditions the enabled fields of a Filter State call for.
NumEnabled(fs) ==
  (IF fs.categoria # <<>> THEN 1 ELSE 0)
  + (IF fs.modalidade # <<>> THEN 1 ELSE 0)
  + (IF fs.estado # <<>> THEN 1 ELSE 0)
  + (IF fs.use_date /\ fs.inicio # NoDate THEN 1 ELSE 0)
  + (IF fs.use_date /\ fs.fim # NoDate THEN 1 ELSE 0)
  + (IF fs.use_value /\ fs.vmin > 0 THEN 1 ELSE 0)
  + (IF fs.use_value /\ fs.vmax > 0 THEN 1 ELSE 0)

\* C13 as claimed: the predicate build_where_clause returned is the AND of
\* one condition per enabled field and of nothing else, and a joined payment
\* row passes it exactly when the row satisfies every enabled field's
\* condition.
C13_ConjunctionOfEnabled ==
  /\ where_clause = build_where_clause(FilterState)
  /\ where_clause.isNone <=> NumEnabled(FilterState) = 0
  /\ ~where_clause.isNone =>
        Cardinality(Positions(where_clause.text, " AND ")) + 1
          = NumEnabled(FilterState)
  /\ \A row \in JoinedRows :
        RowPasses(where_clause, row) <=> SatisfiesEnabled(row, FilterState)

\* ---- C14

\* The payments of category c whose category is one of C and whose
\* athlete's municipality lies in a state of S, read from the tables.
PaymentsOf(pagamentos, c, C, S) ==
  { p \in pagamentos :
      /\ CategoriaTable[p.id_categoria] = c
      /\ c \in C
      /\ MunicipioTable[AtletaTable[p.cpf].id_municipio].uf \in S }

CategoryTotals(pagamentos, C, S) ==
  { <<c, SumValor(PaymentsOf(pagamentos, c, C, S))>> :
      c \in { x \in Range(CategoriaTable) : PaymentsOf(pagamentos, x, C, S) # {} } }

TotalsShown(df) == { <<df[j].key, df[j].valor_total>> : j \in DOMAIN df }

\* The script has just run on the overview page with categories and states
\* selected and the date and value filters off.
CategoryStateRender ==
  /\ pagamento' = pagamento
  /\ page' = "Visão Geral"
  /\ filtro_categoria' # <<>>
  /\ filtro_estado' # <<>>
  /\ filtro_modalidade' = <<>>
  /\ ~use_date_filter'
  /\ ~use_value_filter'

\* C14: when the script runs on the overview page with a set C of categories
\* and a set S of states selected and the date and value filters off, the
\* per-category chart (query_cat) shows for each category the sum of the
\* amounts of exactly the payments whose category is in C and whose athlete's
\* state is in S.
C14_CategoryTotal ==
  [][CategoryStateRender =>
       \E i \in DOMAIN views' :
         /\ views'[i].view = "cat"
         /\ views'[i].ok
         /\ TotalsShown(views'[i].df)
              = CategoryTotals(pagamento', Range(filtro_categoria'), Range(filtro_estado'))
    ]_vars

\* ---- C15

\* What counts as a neutral no-data indication: st.info or st.warning.
NoDataIndications == {"info", "warning"}

\* C15: every view whose query succeeded with zero rows shows a neutral
\* no-data indication.
C15_EmptyResultIndicated ==
  \A i \in DOMAIN views :
    (views[i].ok /\ views[i].df = <<>>) => views[i].shown \in NoDataIndications

\* ---- C16

\* The WHERE parts of the queries a render issued.
Predicates(vs) == { vs[i].query.where : i \in DOMAIN vs }

\* The script has just run with some sidebar filter set, and issued queries.
FilteredRender ==
  /\ pagamento' = pagamento
  /\ ~EmptyFilterState'
  /\ views' # <<>>

\* C16: on every page, a render with a non-empty Filter State issues queries
\* whose predicates differ from those of the same render with the empty
\* Filter State.
C16_FiltersOnEveryPage ==
  [][FilteredRender =>
       Predicates(views') # Predicates(RenderPage(page', NoWhere, Locals', pagamento'))
    ]_vars

\* ---- C17

\* The script has just run (every step but an ingestion is a run).
ScriptRan == pagamento' = pagamento

\* Every result the render shows is the result of its query on the store
\* as it is at the render.
ViewsFresh ==
  \A i \in DOMAIN views' :
    Exec(views'[i].query, pagamento') = [ok |-> views'[i].ok, df |-> views'[i].df]

\* C17 as stated: every render cycle executes again every query it depends
\* on, the filter-option queries included, so the views and the filter
\* options are those of the store at the render.
C17_NoCaching ==
  [][ScriptRan => ViewsFresh /\ filter_options' = LoadFilterOptions(pagamento')]_vars

\* C17 amended: every render cycle executes the page's queries again on the
\* store; the filter-option queries ran in the first cycle only, and every
\* later cycle reuses their result.
C17_OnlyFilterOptionsCached ==
  [][ScriptRan => ViewsFresh /\ filter_options' = filter_options]_vars

\* A render after the store changed: its views show the change, its filter
\* options still have the dates of the first render.
C17_Witness ==
  /\ views = RenderPage(page, where_clause, Locals, pagamento)
  /\ views # RenderPage(page, where_clause, Locals, {})
  /\ filter_options.cached
  /\ filter_options.max_date # LoadFilterOptions(pagamento).max_date

\* ---- C19

\* C19: in the render cycle that follows a press of "Limpar Filtros" the
\* three selections are empty and both toggles are off, and
\* build_where_clause returns no predicate.
C19_LimparFiltrosResets ==
  limpou => EmptyFilterState /\ where_clause.isNone

\* ---- C18

\* The views whose query aggregates into groups, and succeeded.
AggregateViews ==
  { i \in DOMAIN views :
      /\ views[i].ok
      /\ \/ views[i].query.kind = "aggregate" /\ views[i].query.group # ""
         \/ views[i].query.kind = "busca" }

\* The groups the query of view i has on the store, before ORDER BY and LIMIT,
\* and those of them that the view did not return.
AllGroups(i) ==
  Result(views[i].query, Selected(views[i].query, pagamento), pagamento)

Omitted(i) == AllGroups(i) \ Range(views[i].df)

\* The orderings other than by total value that a view names.
OtherMetrics == {"valor_medio DESC", "num_atletas DESC", "MIN(valor_pago)", "periodo"}

\* The aggregate views that name no other ordering metric return their
\* groups in descending order of total value (a view whose query has no
\* ORDER BY returns a single group).
DescendingByTotal ==
  \A i \in AggregateViews :
    views[i].query.order \notin OtherMetrics =>
      \A j, k \in DOMAIN views[i].df :
        j < k => views[i].df[j].valor_total >= views[i].df[k].valor_total

AtMostN ==
  \A i \in AggregateViews :
    views[i].query.limit > 0 =>
      /\ Len(views[i].df) <= views[i].query.limit
      /\ Range(views[i].df) \subseteq AllGroups(i)

\* C18 as stated: descending by total and, for every view with a LIMIT, at
\* most N groups with no omitted group of a larger total than a returned one.
C18_TopNByTotal ==
  /\ DescendingByTotal
  /\ AtMostN
  /\ \A i \in AggregateViews :
       views[i].query.limit > 0 =>
         \A g \in Omitted(i) : \A j \in DOMAIN views[i].df :
           g.valor_total <= views[i].df[j].valor_total

\* C18 amended: descending by total and, for every view with a LIMIT, at
\* most N groups with no omitted group ranking above a returned one in the
\* metric the view orders by: the total value, or the number of athletes for
\* the view ordered by num_atletas.
C18_TopNByOrderingMetric ==
  /\ DescendingByTotal
  /\ AtMostN
  /\ \A i \in AggregateViews :
       views[i].query.limit > 0 =>
         \A g \in Omitted(i) : \A j \in DOMAIN views[i].df :
           IF views[i].query.order = "num_atletas DESC"
           THEN g.num_atletas <= views[i].df[j].num_atletas
           ELSE g.valor_total <= views[i].df[j].valor_total

\* A filtered overview whose Top 10 by total left a group out.
C18_Witness ==
  /\ page = "Visão Geral"
  /\ Truthy(where_clause)
  /\ \E i \in AggregateViews :
       /\ views[i].query.limit = 10
       /\ views[i].query.order = "valor_total DESC"
       /\ Len(views[i].df) = 10
       /\ Omitted(i) # {}

\* ---- C20

\* C20: with two sessions interleaving their get_valid_connection and
\* fetch_query steps, no session executes a query on a handle another
\* session has closed, and no handle is open while the cache does not
\* reference it.
C20_SessionsSafe ==
  /\ \A s \in Sessions : ~sessions.onClosed[s]
  /\ \A h \in Handles : hstate[h] = "open" => \E s \in Sessions : sessions.cache[s] = h

\* ------------------------------------------------------------------ C21

\* The cache is empty or holds a handle the program opened and did not close.
C21_Inv == conn_cache # None => hstate[conn_cache] = "open"

\* A step in which the program calls close() on a handle leaves the cache
\* empty or bound to a handle opened in that same step.
C21_Step ==
  closeAttempted' # closeAttempted =>
    /\ closeAttempted' = closeAttempted \cup {conn_cache}
    /\ conn_cache # None
    /\ conn_cache' # conn_cache
    /\ \/ conn_cache' = None
       \/ /\ nOpened' = nOpened + 1
          /\ conn_cache' = nOpened'
          /\ hstate[conn_cache'] = "unopened"

\* C21: after every get_valid_connection and fetch_query call, also one that
\* ended in an error or in st.stop(), _conn_cache is None or a handle the
\* program has not closed; the handle a call closes is the cached one, and
\* the call leaves the cache empty or bound to a handle it then opened.
C21_CacheNeverClosed == []C21_Inv /\ [][C21_Step]_vars

C21_Witness ==
  /\ pc = "raised"
  /\ call.outcome = "raise"
  /\ call.e1 \in CaughtQuery
  /\ call.cacheAtFail # None
  /\ hstate[call.cacheAtFail] = "closed"
  /\ conn_cache # None
  /\ conn_cache # call.cacheAtFail

\* ------------------------------------------------------------------ C22

\* Every payment's keys resolve in the tables join_clause names.
ReferentialIntegrity(pagamentos) ==
  \A p \in pagamentos : HasCategoria(p) /\ HasModalidade(p) /\ HasMunicipio(p)

\* The predicate w is one that every row of join_clause satisfies.
AlwaysTrue(w, pagamentos) ==
  /\ Truthy(w)
  /\ WhereParses(w)
  /\ \A r \in JoinPagamento(pagamentos, JoinClause) : RowPasses(w, r)

\* What the views show: the rows of each, in order.
DataShown(vs) ==
  [i \in DOMAIN vs |-> [view |-> vs[i].view, ok |-> vs[i].ok, df |-> vs[i].df,
                        shown |-> vs[i].shown]]

\* C22: on the overview page, rendered with a predicate that every joined
\* row satisfies on a store whose payments all reference existing rows, the
\* headline statistics and the rows of every chart are those the no-filter
\* branch of each `if where_clause:` pair computes on the same store.
C22_UnfilteredEquivalent ==
  (/\ page = "Visão Geral"
   /\ ReferentialIntegrity(pagamento)
   /\ AlwaysTrue(where_clause, pagamento)) =>
    DataShown(views) = DataShown(RenderViews(OverviewViews(NoWhere), pagamento))

C22_Witness ==
  /\ page = "Visão Geral"
  /\ ReferentialIntegrity(pagamento)
  /\ AlwaysTrue(where_clause, pagamento)
  /\ Cardinality(pagamento) >= 2
  /\ Len(views) = 10
  /\ views[1].df[1].num_pagamentos = Cardinality(pagamento)
  /\ Len(views[6].df) = 2
  /\ Len(views[4].df) = 2

\* ------------------------------------------------------------------ C23

\* The rows of the search result that carry the name the selectbox holds.
SelectedRows ==
  { i \in DOMAIN views[1].df :
      views[1].df[i].key[2] = NomeSelecionado(views[1].df, atleta_selecionado) }

\* C23: in the athlete search view, whichever row of the search result the
\* user selects, the detail query is the one for the cpf of that row, also
\* when other rows of the result carry the same name.
C23_DetailsOfSelectedRow ==
  (page = "Busca de Atletas" /\ Len(views) = 2) =>
    \A i \in SelectedRows : views[2].query = QueryDetalhes(views[1].df[i].key[1])

====
